---- MODULE Spec2Model ----
(***************************************************************************)
(* State-machine model of the browser front ends of the voice-chat demo:   *)
(*   - AudioPlayer      (openai + elevenlabs + pipecat, audio-player.js)   *)
(*   - AudioManager     (openai + pipecat + streaming, websocket-manager.js)*)
(*     with the audio handlers of the streaming VoiceCall (voice-call.js)  *)
(*   - WebSocketClient  (openai and openai + pipecat, websocket-client.js) *)
(*     with the connect() / disconnect() calls of VoiceAssistant (app.js)  *)
(*   - WebSocketManager (openai + pipecat + streaming, websocket-manager.js)*)
(*   - WebSocketManager (openai + elevenlabs + pipecat)                    *)
(*   - VoiceCall.connectWebSocket (voice-chat.js)                          *)
(*   - UIManager and SpeechRecognitionManager of the streaming front end,  *)
(*     with the call handling of the streaming VoiceCall (voice-call.js)  *)
(*   - SpeechManager    (openai + pipecat, app.js)                         *)
(*   - sendMessage, onMessage and the ws.onmessage handlers of the         *)
(*     transports, with VoiceCall.handleWebSocketMessage                   *)
(*   - VoiceAgent       (openai + elevenlabs + pipecat, voice-agent.js)    *)
(*     with the SpeechRecognitionManager and the AudioPlayer it owns       *)
(*   - VoiceCall        (voice-chat.js): the call, its recognition and     *)
(*     the transcripts it sends                                            *)
(* Each component has its own variables, its own actions and its own       *)
(* specification; an action leaves the variables of the other components   *)
(* unchanged.                                                              *)
(***************************************************************************)
EXTENDS Integers, Sequences, FiniteSets

\* ---------------------------------------------------------------- bounds
\* Number of audio chunks handed to AudioPlayer.playAudioChunk in a run.
MaxChunks == 3
\* Pending one-second clean-up timers of finalizeStreamingAudio kept at once.
MaxCleanupTimers == 1
\* Number of audio fragments handed to AudioManager in a run.
MaxFragments == 3
\* Number of WebSocket objects a WebSocketClient creates in a run.
MaxSockets == 7
\* Number of WebSocket objects the streaming WebSocketManager creates in a run.
MaxManagerSockets == 7
\* Reconnects in a row, with no open in between, followed for the transports
\* that keep no count of their own.
MaxRetries == 6
\* Nodes kept in the chat area at once.
MaxChat == 4
\* Recognition results one result event carries.
MaxResults == 2
\* Calls started in a run.
MaxCalls == 2
\* Pending timers of one kind kept at once in the streaming VoiceCall.
MaxStatusTimers == 1
MaxRestartTimers == 2
\* Notification elements on the page at once.
MaxNotifications == 1
\* Sockets closed by disconnect() whose close event is still to come.
MaxClosePending == 1
\* Messages sent over the socket in a run.
MaxSent == 2
\* Pieces of text the SpeechManager accumulates in a run, and sessions it ends.
MaxAccumulated == 4
MaxSessions == 2
\* Frames a transport is given to send in a run.
MaxFrames == 2
\* Calls of recognition.start() the VoiceAgent makes in a run.
MaxStarts == 2
\* onMessage(type, handler) registrations made on one transport in a run.
MaxRegistrations == 2

\* ------------------------------------------------------ program constants
\* WebSocketClient.maxReconnectAttempts.
MaxReconnectAttempts == 5
\* The factor of "const delay = 2000 * this.reconnectAttempts".
ClientBaseDelay == 2000
\* The streaming WebSocketManager's maxReconnectAttempts and reconnectDelay.
ManagerMaxReconnectAttempts == 5
ManagerReconnectDelay == 3000

VARIABLES
    \* ---- AudioPlayer (audio-player.js)
    apQueue,          \* this.audioQueue: chunks pushed and not yet shifted
    apIsMuted,        \* this.isMuted
    apIsStreaming,    \* this.isStreaming
    apChunkIndex,     \* this.currentChunkIndex
    apPlaying,        \* chunk Audio objects on which play() ran and that have not ended or failed
    apTimers,         \* pending setTimeout(() => this.playNextChunk(), 10)
    apCleanupTimers,  \* pending one-second timers of finalizeStreamingAudio
    apNext,           \* number of playAudioChunk calls made so far (names the chunk)
    apCalls,          \* chunks accepted by playAudioChunk during this response, in call order
    apStarted,        \* chunks whose playback started during this response, in start order
    \* ---- AudioManager (streaming websocket-manager.js)
    amAudio,          \* the Audio objects that can still raise an event or settle a play() promise
    amCurrentAudio,   \* this.currentAudio: the fragment id of the Audio, 0 for null
    amQueue,          \* this.audioQueue
    amIsPlaying,      \* this.isPlaying
    amNextFrag,       \* number of fragments handed over so far (names the fragment)
    amFailed,         \* fragments taken from the queue whose decoding or playback failed
    amUrls,           \* fragments whose object URL was created and is not revoked
    \* ---- WebSocketClient (websocket-client.js)
    wcVariant,        \* the websocket-client.js the page loaded: "openai", or "pipecat" (the
                      \* one with reconnectTimeout); "none" until the client is constructed
    wcWs,             \* readyState of the socket this.ws refers to, "null" when this.ws is null
    wcAbandoned,      \* sockets this.ws no longer refers to, handlers attached, not yet closed
    wcReconnectAttempts, \* this.reconnectAttempts
    wcRefTimer,       \* the timer this.reconnectTimeout refers to is pending
    wcOrphanTimers,   \* pending reconnect timers this.reconnectTimeout does not refer to
    wcState,          \* the last state given to notifyConnectionState, "none" before the first
    wcCreated,        \* number of WebSocket objects created so far
    wcCloses,         \* onclose calls since the last onopen (counted up to MaxReconnectAttempts + 1)
    wcDelays,         \* delays of the reconnect timers scheduled since the last onopen
    wcFailed,         \* 'failed' was notified since the last onopen
    \* ---- streaming WebSocketManager (websocket-manager.js)
    wmWs,             \* readyState of the socket this.ws refers to, "null" when this.ws is null
    wmClosing,        \* sockets disconnect() closed whose close event has not fired, by the
                      \* readyState they had when close(1000) was called
    wmIsConnected,    \* this.isConnected
    wmReconnectAttempts, \* this.reconnectAttempts
    wmTimers,         \* pending setTimeout(() => this.connect(), this.reconnectDelay)
    wmCreated,        \* number of WebSocket objects created so far
    wmDisconnected,   \* disconnect() has run
    wmDelays,         \* delays of the reconnect timers scheduled since the last onopen
    \* ---- ElevenLabs WebSocketManager (websocket-manager.js)
    elWs,             \* readyState of this.ws, "null" before connect()
    elTimers,         \* pending setTimeout(() => this.connect(), 3000)
    elState,          \* the last state given to notifyConnectionState
    elAttempts,       \* connect() calls made by a timer since the last onopen
    \* ---- voice-chat VoiceCall.connectWebSocket (voice-chat.js)
    vchWs,            \* readyState of this.ws, "null" before connectWebSocket()
    vchTimers,        \* pending three-second reconnect timers
    vchIsConnected,   \* this.isConnected
    vchAttempts,      \* connectWebSocket() calls made by a timer since the last onopen
    \* ---- streaming UIManager
    uiChat,           \* the child nodes of elements.chatArea, in document order
    uiHistory,        \* this.conversationHistory
    uiCurrentAiMessage, \* this.currentAiMessage: the node's number, 0 for null
    uiLive,           \* this.liveTranscriptionElement: the node's number, 0 for null
    uiCallStatus,     \* the text of elements.callStatus
    uiCallButton,     \* the call button shows "End Call"
    uiNotifications,  \* notification elements of showNotification still on the page
    \* ---- streaming SpeechRecognitionManager
    srSupported,      \* this.isSupported: "true" or "false", "unknown" until the page has
                      \* constructed the manager
    srIsListening,    \* this.isListening
    srEngine,         \* the browser's recognition session: "idle", "starting" (start() called,
                      \* start event pending), "running", "stopping" (stop() called, end event
                      \* pending), "failed" (error event delivered, end event pending)
    srShould,         \* this.shouldContinueListening: "undefined", "false" or "true"
    srWrappers,       \* how many times startContinuous() has wrapped callbacks.onEnd
    srTimers,         \* pending 100 ms restart timers of the onEnd wrappers
    srStartCalls,     \* number of recognition.start() calls issued so far (bounded)
    srSkipped,        \* a restart timer has fired and started nothing since stopContinuous()
    srAfterError,     \* an error event was delivered while listening and the user has not
                      \* started a call since
    srRestarts,       \* recognition.start() calls made by the restart timers of the last
                      \* recognition.onend; -1 when an older restart timer was pending
                      \* at that onend
    \* ---- streaming VoiceCall (voice-call.js)
    vcIsOnCall,       \* this.isOnCall
    vcIsConnected,    \* this.isConnected
    vcWs,             \* readyState of websocket.ws: "none" before the page has constructed the
                      \* VoiceCall, "null", "connecting", "open", "closing", "closed"
    vcClosePending,   \* sockets disconnect() closed whose close event has not fired
    vcReconnectTimer, \* a reconnect timer of the WebSocketManager is pending
    vcRestartTimers,  \* pending 100 ms timers of handleSpeechEnd
    vcStatusTimers,   \* pending 2000 ms timers of endCall
    vcSent,           \* the messages given to ws.send, in order
    vcEvent,          \* the call of startCall(), endCall() or destroy() that ran last with
                      \* what it found, "other" after any other handler
    \* ---- SpeechManager (openai + pipecat, app.js)
    smSupported,      \* this.recognition is not null: "true" or "false", "unknown" until the
                      \* page has constructed the manager
    smIsRecording,    \* this.isRecording
    smAccumulated,    \* this.accumulatedTranscript
    smEngine,         \* the browser's recognition session: "idle", "running", "stopping"
    smDelivered,      \* the transcripts given to the onEnd subscribers, in order
    \* ---- messages sent through the transports
    wcFrames,         \* the frames WebSocketClient gave to ws.send, in order
    wcSendRet,        \* what the last WebSocketClient.sendMessage did: "true" or "false"
                      \* returned, "threw", "none" before the first call
    wmFrames,         \* the frames the streaming WebSocketManager gave to ws.send, in order
    wmSendRet,        \* what the last WebSocketManager.sendMessage did, as wcSendRet
    \* ---- messages received through the transports
    wcHandlers,       \* WebSocketClient.messageHandlers: the handler of each type that has one
    wcRegs,           \* the onMessage(type, handler) calls made on the client, in order
    wcRx,             \* the last frame ws.onmessage of the client received, the handlers it
                      \* invoked and whether an exception left the event handler
    elHandlers,       \* messageHandlers of the ElevenLabs WebSocketManager
    elRegs,           \* the onMessage(type, handler) calls made on that manager, in order
    elRx,             \* as wcRx, for that manager
    elBadSeen,        \* ws.onmessage of that manager has received a frame that is not JSON
    wmBadSeen,        \* as elBadSeen, for the streaming WebSocketManager
    wmRx,             \* the last frame ws.onmessage of the streaming WebSocketManager received,
                      \* whether callbacks.onMessage was called and whether an exception
                      \* left the event handler
    \* ---- VoiceAgent (voice-agent.js) and its SpeechRecognitionManager
    vaIsProcessing,   \* VoiceAgent.isProcessing
    vaSrIsListening,  \* speechRecognition.isListening
    vaSrEngine,       \* the browser's recognition object: "idle", "starting", "running", "stopping"
    vaSrStarts,       \* calls of this.recognition.start() made so far
    vaSent,           \* user_speech frames given to ws.send so far
    vaEvent,          \* whether the last VoiceAgent operation was startListening(), and
                      \* whether it called recognition.start()
    \* ---- voice-chat VoiceCall: the call (voice-chat.js)
    vchIsOnCall,      \* this.isOnCall
    vchSupported,     \* the browser has a SpeechRecognition: "true" or "false", "unknown"
                      \* until the page has constructed the VoiceCall
    vchEngine,        \* this.recognition: "none", "idle", "running" or "stopping"
    vchRestartTimers, \* pending 100 ms timers of recognition.onend
    vchChat,          \* the child nodes of this.chatArea, in document order
    vchHistory,       \* this.conversationHistory
    vchSent,          \* the messages given to ws.send so far
    vchEvent          \* the last operation when it was a sendTranscription call, with its
                      \* text and whether the message was given to ws.send, or a
                      \* recognition.start() call of the restart timer

apVars == <<apQueue, apIsMuted, apIsStreaming, apChunkIndex, apPlaying,
            apTimers, apCleanupTimers, apNext, apCalls, apStarted>>

amVars == <<amAudio, amCurrentAudio, amQueue, amIsPlaying, amNextFrag, amFailed,
            amUrls>>

wcVars == <<wcVariant, wcWs, wcAbandoned, wcReconnectAttempts, wcRefTimer,
            wcOrphanTimers, wcState, wcCreated, wcCloses, wcDelays, wcFailed>>

wmVars == <<wmWs, wmClosing, wmIsConnected, wmReconnectAttempts, wmTimers,
            wmCreated, wmDisconnected, wmDelays>>

elVars == <<elWs, elTimers, elState, elAttempts>>

vchVars == <<vchWs, vchTimers, vchIsConnected, vchAttempts>>

uiVars == <<uiChat, uiHistory, uiCurrentAiMessage, uiLive, uiCallStatus,
            uiCallButton, uiNotifications>>

srVars == <<srSupported, srIsListening, srEngine, srShould, srWrappers, srTimers,
            srStartCalls, srSkipped, srAfterError, srRestarts>>

vcVars == <<vcIsOnCall, vcIsConnected, vcWs, vcClosePending, vcReconnectTimer,
            vcRestartTimers, vcStatusTimers, vcSent, vcEvent>>

\* The streaming VoiceCall with the UIManager and SpeechRecognitionManager it owns.
callVars == <<uiVars, srVars, vcVars>>

smVars == <<smSupported, smIsRecording, smAccumulated, smEngine, smDelivered>>

sendVars == <<wcFrames, wcSendRet, wmFrames, wmSendRet>>

rxVars == <<wcHandlers, wcRegs, wcRx, elHandlers, elRegs, elRx, wmRx,
            elBadSeen, wmBadSeen>>

ioVars == <<sendVars, rxVars>>

vaVars == <<vaIsProcessing, vaSrIsListening, vaSrEngine, vaSrStarts, vaSent, vaEvent>>

vchCallVars == <<vchIsOnCall, vchSupported, vchEngine, vchRestartTimers, vchChat,
                 vchHistory, vchSent, vchEvent>>

vars == <<apVars, amVars, wcVars, wmVars, elVars, vchVars, callVars, smVars, ioVars,
          vaVars, vchCallVars>>

apOthers == <<amVars, wcVars, wmVars, elVars, vchVars, callVars, smVars, ioVars, vaVars,
             vchCallVars>>
amOthers == <<apVars, wcVars, wmVars, elVars, vchVars, callVars, smVars, ioVars, vaVars,
             vchCallVars>>
wcOthers == <<apVars, amVars, wmVars, elVars, vchVars, callVars, smVars, ioVars, vaVars,
             vchCallVars>>
wmOthers == <<apVars, amVars, wcVars, elVars, vchVars, callVars, smVars, ioVars, vaVars,
             vchCallVars>>
elOthers == <<apVars, amVars, wcVars, wmVars, vchVars, callVars, smVars, ioVars, vaVars,
             vchCallVars>>
vchOthers == <<apVars, amVars, wcVars, wmVars, elVars, callVars, smVars, ioVars, vaVars,
             vchCallVars>>
callOthers == <<apVars, wcVars, wmVars, elVars, vchVars, smVars, ioVars, vaVars,
             vchCallVars>>
ioOthers == <<apVars, amVars, wcVars, wmVars, elVars, vchVars, callVars, smVars, vaVars,
             vchCallVars>>
smOthers == <<apVars, amVars, wcVars, wmVars, elVars, vchVars, callVars, ioVars, vaVars,
             vchCallVars>>
\* The VoiceAgent handlers also drive the AudioPlayer and read the transport.
vaOthers == <<amVars, wcVars, wmVars, vchVars, callVars, smVars, ioVars, vchCallVars>>

\* ------------------------------------------------------------ helpers
IsPrefix(s, t) ==
    /\ Len(s) <= Len(t)
    /\ \A i \in 1..Len(s) : s[i] = t[i]

\* ===================================================================
\* AudioPlayer
\* ===================================================================
APInit ==
    /\ apQueue = <<>>
    /\ apIsMuted = FALSE
    /\ apIsStreaming = FALSE
    /\ apChunkIndex = 0
    /\ apPlaying = {}
    /\ apTimers = 0
    /\ apCleanupTimers = 0
    /\ apNext = 0
    /\ apCalls = <<>>
    /\ apStarted = <<>>

\* playNextChunk(): the queue, the playing set and the start log after the call.
\* The head is shifted and play() is called on it when the queue is not empty
\* and the player is not muted.
PlayNextChunkFrom(q, playing, started) ==
    IF Len(q) > 0 /\ ~apIsMuted
    THEN [queue |-> Tail(q),
          playing |-> playing \cup {Head(q).audio},
          started |-> Append(started, Head(q).audio)]
    ELSE [queue |-> q, playing |-> playing, started |-> started]

\* initializeStreamingAudio(), called on a 'processing' message.
InitializeStreamingAudioBody ==
    /\ IF ~apIsMuted
       THEN /\ apQueue' = <<>>
            /\ apIsStreaming' = TRUE
            /\ apChunkIndex' = 0
            /\ apCalls' = <<>>
            /\ apStarted' = <<>>
       ELSE UNCHANGED <<apQueue, apIsStreaming, apChunkIndex, apCalls, apStarted>>
    /\ UNCHANGED <<apIsMuted, apPlaying, apTimers, apCleanupTimers, apNext>>

\* initializeStreamingAudio() called on the AudioPlayer alone.
InitializeStreamingAudio ==
    /\ InitializeStreamingAudioBody
    /\ UNCHANGED apOthers

\* playAudioChunk(audioBase64): the chunk is pushed, and playNextChunk() is
\* called when the queue then holds exactly one chunk.
PlayAudioChunkBody ==
    /\ apNext < MaxChunks
    /\ apNext' = apNext + 1
    /\ IF ~apIsMuted /\ apIsStreaming
       THEN LET chunk == [audio |-> apNext + 1, index |-> apChunkIndex]
                pushed == Append(apQueue, chunk)
                r == IF Len(pushed) = 1
                     THEN PlayNextChunkFrom(pushed, apPlaying, apStarted)
                     ELSE [queue |-> pushed, playing |-> apPlaying, started |-> apStarted]
            IN /\ apChunkIndex' = apChunkIndex + 1
               /\ apCalls' = Append(apCalls, chunk.audio)
               /\ apQueue' = r.queue
               /\ apPlaying' = r.playing
               /\ apStarted' = r.started
       ELSE UNCHANGED <<apChunkIndex, apCalls, apQueue, apPlaying, apStarted>>
    /\ UNCHANGED <<apIsMuted, apIsStreaming, apTimers, apCleanupTimers>>

\* A variant of playAudioChunk that puts the chunk at the front of the queue
\* and starts playback only when no chunk is playing.
PlayAudioChunkFront ==
    /\ apNext < MaxChunks
    /\ apNext' = apNext + 1
    /\ IF ~apIsMuted /\ apIsStreaming
       THEN LET chunk == [audio |-> apNext + 1, index |-> apChunkIndex]
                pushed == <<chunk>> \o apQueue
                r == IF apPlaying = {}
                     THEN PlayNextChunkFrom(pushed, apPlaying, apStarted)
                     ELSE [queue |-> pushed, playing |-> apPlaying, started |-> apStarted]
            IN /\ apChunkIndex' = apChunkIndex + 1
               /\ apCalls' = Append(apCalls, chunk.audio)
               /\ apQueue' = r.queue
               /\ apPlaying' = r.playing
               /\ apStarted' = r.started
       ELSE UNCHANGED <<apChunkIndex, apCalls, apQueue, apPlaying, apStarted>>
    /\ UNCHANGED <<apIsMuted, apIsStreaming, apTimers, apCleanupTimers>>
    /\ UNCHANGED apOthers

\* playAudioChunk(audioBase64) called on the AudioPlayer alone.
PlayAudioChunk ==
    /\ PlayAudioChunkBody
    /\ UNCHANGED apOthers

\* chunk.audio.onended: the next chunk is scheduled 10 ms later when chunks
\* are queued or the response is still streaming.
ChunkEnded ==
    \E c \in apPlaying :
        /\ apPlaying' = apPlaying \ {c}
        /\ apTimers' = IF Len(apQueue) > 0 \/ apIsStreaming THEN apTimers + 1 ELSE apTimers
        /\ UNCHANGED <<apQueue, apIsMuted, apIsStreaming, apChunkIndex,
                       apCleanupTimers, apNext, apCalls, apStarted>>
        /\ UNCHANGED apOthers

\* chunk.audio.onerror: playNextChunk() is called at once under the same condition.
ChunkError ==
    \E c \in apPlaying :
        LET r == IF Len(apQueue) > 0 \/ apIsStreaming
                 THEN PlayNextChunkFrom(apQueue, apPlaying \ {c}, apStarted)
                 ELSE [queue |-> apQueue, playing |-> apPlaying \ {c}, started |-> apStarted]
        IN /\ apQueue' = r.queue
           /\ apPlaying' = r.playing
           /\ apStarted' = r.started
           /\ UNCHANGED <<apIsMuted, apIsStreaming, apChunkIndex, apTimers,
                          apCleanupTimers, apNext, apCalls>>
           /\ UNCHANGED apOthers

\* The 10 ms timer set by onended fires: playNextChunk().
ChunkTimerFires ==
    /\ apTimers > 0
    /\ apTimers' = apTimers - 1
    /\ LET r == PlayNextChunkFrom(apQueue, apPlaying, apStarted)
       IN /\ apQueue' = r.queue
          /\ apPlaying' = r.playing
          /\ apStarted' = r.started
    /\ UNCHANGED <<apIsMuted, apIsStreaming, apChunkIndex, apCleanupTimers, apNext, apCalls>>
    /\ UNCHANGED apOthers

\* finalizeStreamingAudio(), called on the final audio_response message.
FinalizeStreamingAudioBody ==
    /\ apCleanupTimers < MaxCleanupTimers
    /\ apIsStreaming' = FALSE
    /\ apCleanupTimers' = apCleanupTimers + 1
    /\ UNCHANGED <<apQueue, apIsMuted, apChunkIndex, apPlaying, apTimers,
                   apNext, apCalls, apStarted>>

\* finalizeStreamingAudio() called on the AudioPlayer alone.
FinalizeStreamingAudio ==
    /\ FinalizeStreamingAudioBody
    /\ UNCHANGED apOthers

\* The one-second timer of finalizeStreamingAudio fires.
CleanupTimerFires ==
    /\ apCleanupTimers > 0
    /\ apCleanupTimers' = apCleanupTimers - 1
    /\ apChunkIndex' = IF Len(apQueue) = 0 THEN 0 ELSE apChunkIndex
    /\ UNCHANGED <<apQueue, apIsMuted, apIsStreaming, apPlaying, apTimers,
                   apNext, apCalls, apStarted>>
    /\ UNCHANGED apOthers

\* toggleMute().
ToggleMute ==
    /\ apIsMuted' = ~apIsMuted
    /\ UNCHANGED <<apQueue, apIsStreaming, apChunkIndex, apPlaying, apTimers,
                   apCleanupTimers, apNext, apCalls, apStarted>>
    /\ UNCHANGED apOthers

NextAP ==
    \/ InitializeStreamingAudio
    \/ PlayAudioChunk
    \/ ChunkEnded
    \/ ChunkError
    \/ ChunkTimerFires
    \/ FinalizeStreamingAudio
    \/ CleanupTimerFires
    \/ ToggleMute


\* ===================================================================
\* AudioManager, and the audio handlers of the streaming VoiceCall
\* ===================================================================
\* A fragment is [id, kind, via]: kind "ok" decodes and plays, "bad" is
\* malformed base64 (atob throws), "empty" is a falsy audioB64; via is the
\* entry point that handed it over.
FragKinds == {"ok", "bad", "empty"}

AMInit ==
    /\ amAudio = <<>>
    /\ amCurrentAudio = 0
    /\ amQueue = <<>>
    /\ amIsPlaying = FALSE
    /\ amNextFrag = 0
    /\ amFailed = {}
    /\ amUrls = {}

\* An Audio object that has ended or failed and whose play() promise is
\* settled raises nothing any more: it is dropped from amAudio.
Prune(audio) ==
    LET keep == {a \in DOMAIN audio :
                    ~(audio[a].st = "done" /\ audio[a].promise = "settled")}
    IN [a \in keep |-> audio[a]]

\* stopCurrentAudio(): pause() the current Audio, forget it, isPlaying = false.
StopCurrentAudio(audio, cur) ==
    [audio |-> IF cur \in DOMAIN audio /\ audio[cur].st = "playing"
               THEN [audio EXCEPT ![cur].st = "paused"]
               ELSE audio,
     cur |-> 0,
     isPlaying |-> FALSE]

\* playAudio(audioB64) up to its await: what it leaves in audio, currentAudio
\* and isPlaying. threw: base64ToBlob threw and the catch block ran.
PlayAudioSync(f, audio, cur, isPlaying) ==
    IF f.kind = "empty"
    THEN [audio |-> audio, cur |-> cur, isPlaying |-> isPlaying, threw |-> FALSE]
    ELSE IF f.kind = "bad"
    THEN [audio |-> audio, cur |-> cur, isPlaying |-> FALSE, threw |-> TRUE]
    ELSE LET s == StopCurrentAudio(audio, cur)
         IN [audio |-> [a \in DOMAIN s.audio \cup {f.id} |->
                           IF a = f.id
                           THEN [st |-> "playing", promise |-> "pending", via |-> f.via]
                           ELSE s.audio[a]],
             cur |-> f.id,
             isPlaying |-> TRUE,
             threw |-> FALSE]

\* URL.createObjectURL in playAudio: the fragments for which a call that
\* took the Audio objects from before to after created an object URL.
CreatedUrls(before, after) == DOMAIN after \ DOMAIN before

\* playNextInQueue() up to its await.
PlayNextInQueueSync(q, audio, cur, isPlaying, failed) ==
    IF Len(q) = 0 \/ isPlaying
    THEN [queue |-> q, audio |-> audio, cur |-> cur, isPlaying |-> isPlaying,
          failed |-> failed]
    ELSE LET r == PlayAudioSync(Head(q), audio, cur, isPlaying)
         IN [queue |-> Tail(q), audio |-> r.audio, cur |-> r.cur,
             isPlaying |-> r.isPlaying,
             failed |-> IF r.threw THEN failed \cup {Head(q).id} ELSE failed]

\* queueAudio(audioB64): push, then playNextInQueue() when not playing.
QueueAudio ==
    \E kind \in FragKinds :
        /\ amNextFrag < MaxFragments
        /\ amNextFrag' = amNextFrag + 1
        /\ LET f == [id |-> amNextFrag + 1, kind |-> kind, via |-> "queueAudio"]
               pushed == Append(amQueue, f)
               r == IF ~amIsPlaying
                    THEN PlayNextInQueueSync(pushed, amAudio, amCurrentAudio,
                                             amIsPlaying, amFailed)
                    ELSE [queue |-> pushed, audio |-> amAudio, cur |-> amCurrentAudio,
                          isPlaying |-> amIsPlaying, failed |-> amFailed]
           IN /\ amQueue' = r.queue
              /\ amAudio' = r.audio
              /\ amCurrentAudio' = r.cur
              /\ amIsPlaying' = r.isPlaying
              /\ amFailed' = r.failed
              /\ amUrls' = amUrls \cup CreatedUrls(amAudio, r.audio)
        /\ UNCHANGED amOthers

\* playAudio(content) called by a VoiceCall message handler.
PlayAudioDirect(via) ==
    \E kind \in FragKinds :
        /\ amNextFrag < MaxFragments
        /\ amNextFrag' = amNextFrag + 1
        /\ LET f == [id |-> amNextFrag + 1, kind |-> kind, via |-> via]
               r == PlayAudioSync(f, amAudio, amCurrentAudio, amIsPlaying)
           IN /\ amAudio' = r.audio
              /\ amCurrentAudio' = r.cur
              /\ amIsPlaying' = r.isPlaying
              /\ amUrls' = amUrls \cup CreatedUrls(amAudio, r.audio)
        /\ UNCHANGED <<amQueue, amFailed>>
        /\ UNCHANGED amOthers

\* VoiceCall.handleWebSocketMessage, case 'audio_chunk': handleAudioChunk.
VCAudioChunk == PlayAudioDirect("audio_chunk")

\* VoiceCall.handleWebSocketMessage, case 'audio_response'.
VCAudioResponse == PlayAudioDirect("audio_response")

\* currentAudio.onended of Audio a, which plays and whose play() promise resolved.
AudioEndedOf(a) ==
    /\ amAudio[a].st = "playing"
    /\ amAudio[a].promise = "settled"
    /\ LET r == PlayNextInQueueSync(amQueue,
                                    Prune([amAudio EXCEPT ![a].st = "done"]),
                                    0, FALSE, amFailed)
       IN /\ amQueue' = r.queue
          /\ amAudio' = r.audio
          /\ amCurrentAudio' = r.cur
          /\ amIsPlaying' = r.isPlaying
          /\ amFailed' = r.failed
          /\ amUrls' = (amUrls \ {a}) \cup CreatedUrls(amAudio, r.audio)
    /\ UNCHANGED amNextFrag
    /\ UNCHANGED amOthers

AudioEnded == \E a \in DOMAIN amAudio : AudioEndedOf(a)

\* currentAudio.onerror of Audio a: the element raised an error while
\* playing, or after it was paused by stopCurrentAudio.
AudioError ==
    \E a \in DOMAIN amAudio :
        /\ amAudio[a].st \in {"playing", "paused"}
        /\ amAudio' = Prune([amAudio EXCEPT ![a].st = "done"])
        /\ amCurrentAudio' = 0
        /\ amIsPlaying' = FALSE
        /\ amFailed' = IF amAudio[a].via = "queueAudio" THEN amFailed \cup {a} ELSE amFailed
        /\ amUrls' = amUrls \ {a}
        /\ UNCHANGED <<amQueue, amNextFrag>>
        /\ UNCHANGED amOthers

\* await this.currentAudio.play() resolves: playAudio returns true.
PlayPromiseResolves ==
    \E a \in DOMAIN amAudio :
        /\ amAudio[a].promise = "pending"
        /\ amAudio[a].st = "playing"
        /\ amAudio' = [amAudio EXCEPT ![a].promise = "settled"]
        /\ UNCHANGED <<amCurrentAudio, amQueue, amIsPlaying, amNextFrag, amFailed, amUrls>>
        /\ UNCHANGED amOthers

\* await this.currentAudio.play() rejects (playback refused, the Audio was
\* paused before it started, or its media failed): the catch block runs.
PlayPromiseRejects ==
    \E a \in DOMAIN amAudio :
        /\ amAudio[a].promise = "pending"
        /\ amAudio' = Prune([amAudio EXCEPT
                                ![a].promise = "settled",
                                ![a].st = IF @ = "playing" THEN "done" ELSE @])
        /\ amIsPlaying' = FALSE
        /\ amFailed' = IF amAudio[a].via = "queueAudio" THEN amFailed \cup {a} ELSE amFailed
        /\ UNCHANGED <<amCurrentAudio, amQueue, amNextFrag, amUrls>>
        /\ UNCHANGED amOthers

\* stopAll(): stopCurrentAudio(), clearQueue().
StopAll ==
    /\ LET s == StopCurrentAudio(amAudio, amCurrentAudio)
       IN /\ amAudio' = s.audio
          /\ amCurrentAudio' = s.cur
          /\ amIsPlaying' = s.isPlaying
    /\ amQueue' = <<>>
    /\ UNCHANGED <<amNextFrag, amFailed, amUrls>>
    /\ UNCHANGED amOthers

NextAM ==
    \/ QueueAudio
    \/ VCAudioChunk
    \/ VCAudioResponse
    \/ AudioEnded
    \/ AudioError
    \/ PlayPromiseResolves
    \/ PlayPromiseRejects
    \/ StopAll

\* The streaming VoiceCall with its AudioManager: VoiceCall hands fragments
\* over through playAudio only, and endCall() / destroy() call stopAll().
NextVCAudio ==
    \/ VCAudioChunk
    \/ VCAudioResponse
    \/ AudioEnded
    \/ AudioError
    \/ PlayPromiseResolves
    \/ PlayPromiseRejects
    \/ StopAll

\* The Audio objects that are playing.
AMPlaying == {a \in DOMAIN amAudio : amAudio[a].st = "playing"}

\* No Audio is playing and no play() promise is pending: no callback of
\* AudioManager will run unless one of its methods is called.
AMIdle == \A a \in DOMAIN amAudio :
              amAudio[a].st # "playing" /\ amAudio[a].promise = "settled"

\* ===================================================================
\* WebSocketClient, and the calls VoiceAssistant makes on it
\* ===================================================================
WCInit ==
    /\ wcVariant = "none"
    /\ wcWs = "null"
    /\ wcAbandoned = [connecting |-> 0, open |-> 0, closing |-> 0]
    /\ wcReconnectAttempts = 0
    /\ wcRefTimer = FALSE
    /\ wcOrphanTimers = 0
    /\ wcState = "none"
    /\ wcCreated = 0
    /\ wcCloses = 0
    /\ wcDelays = <<>>
    /\ wcFailed = FALSE

\* Pending reconnect timers.
WCTimers == wcOrphanTimers + (IF wcRefTimer THEN 1 ELSE 0)

\* Sockets with handlers attached that are connecting or open.
WCLiveSockets ==
    (IF wcWs \in {"connecting", "open"} THEN 1 ELSE 0)
    + wcAbandoned.connecting + wcAbandoned.open

\* A variant of attemptReconnect that compares with <= instead of <.
AttemptReconnectOffByOne(attempts) ==
    IF attempts <= MaxReconnectAttempts
    THEN [attempts |-> attempts + 1, schedule |-> TRUE,
          delay |-> ClientBaseDelay * (attempts + 1), notify |-> "reconnecting"]
    ELSE [attempts |-> attempts, schedule |-> FALSE, delay |-> 0, notify |-> "failed"]

\* attemptReconnect(): the new attempt count, whether a timer is set and with
\* which delay, and the state notified.
AttemptReconnect(attempts) ==
    IF attempts < MaxReconnectAttempts
    THEN [attempts |-> attempts + 1, schedule |-> TRUE,
          delay |-> ClientBaseDelay * (attempts + 1), notify |-> "reconnecting"]
    ELSE [attempts |-> attempts, schedule |-> FALSE, delay |-> 0, notify |-> "failed"]

\* connect(): this.ws = new WebSocket(url). The socket this.ws referred to is
\* neither closed nor detached from its handlers.
WCConnect ==
    /\ wcCreated < MaxSockets
    /\ wcCreated' = wcCreated + 1
    /\ wcWs' = "connecting"
    /\ wcAbandoned' = IF wcWs \in {"connecting", "open"}
                      THEN [wcAbandoned EXCEPT ![wcWs] = @ + 1]
                      ELSE wcAbandoned

\* The page constructs the client of its front end, and
\* VoiceAssistant.initialize() makes the first connect().
WCInitialConnect ==
    /\ wcCreated = 0
    /\ wcVariant' \in {"openai", "pipecat"}
    /\ WCConnect
    /\ UNCHANGED <<wcReconnectAttempts, wcRefTimer, wcOrphanTimers,
                   wcState, wcCloses, wcDelays, wcFailed>>
    /\ UNCHANGED wcOthers

\* VoiceAssistant's visibilitychange handler: the page became visible and
\* isConnected() is false.
WCVisibilityConnect ==
    /\ wcVariant = "pipecat"
    /\ wcCreated > 0
    /\ wcWs # "open"
    /\ WCConnect
    /\ UNCHANGED <<wcVariant, wcReconnectAttempts, wcRefTimer, wcOrphanTimers,
                   wcState, wcCloses, wcDelays, wcFailed>>
    /\ UNCHANGED wcOthers

\* A reconnect timer fires: connect().
WCTimerFires ==
    /\ \/ /\ wcRefTimer
          /\ wcRefTimer' = FALSE
          /\ UNCHANGED wcOrphanTimers
       \/ /\ wcOrphanTimers > 0
          /\ wcOrphanTimers' = wcOrphanTimers - 1
          /\ UNCHANGED wcRefTimer
    /\ WCConnect
    /\ UNCHANGED <<wcVariant, wcReconnectAttempts, wcState, wcCloses, wcDelays, wcFailed>>
    /\ UNCHANGED wcOthers

\* ws.onopen of a connecting socket, the current one or an abandoned one.
WCSocketOpens ==
    /\ \/ /\ wcWs = "connecting"
          /\ wcWs' = "open"
          /\ UNCHANGED wcAbandoned
       \/ /\ wcAbandoned.connecting > 0
          /\ wcAbandoned' = [wcAbandoned EXCEPT !.connecting = @ - 1, !.open = @ + 1]
          /\ UNCHANGED wcWs
    /\ wcReconnectAttempts' = 0
    /\ wcState' = "connected"
    /\ wcCloses' = 0
    /\ wcDelays' = <<>>
    /\ wcFailed' = FALSE
    /\ UNCHANGED <<wcVariant, wcRefTimer, wcOrphanTimers, wcCreated>>
    /\ UNCHANGED wcOthers

\* ws.onerror of a socket that is connecting or open.
WCSocketError ==
    /\ WCLiveSockets > 0
    /\ wcState' = "error"
    /\ UNCHANGED <<wcVariant, wcWs, wcAbandoned, wcReconnectAttempts, wcRefTimer,
                   wcOrphanTimers, wcCreated, wcCloses, wcDelays, wcFailed>>
    /\ UNCHANGED wcOthers

\* ws.onclose of a socket: notifyConnectionState('disconnected'), attemptReconnect().
\* The socket is the current one, an abandoned one, or one disconnect() closed.
WCSocketCloses ==
    /\ \/ /\ wcWs \in {"connecting", "open"}
          /\ wcWs' = "closed"
          /\ UNCHANGED wcAbandoned
       \/ \E k \in {"connecting", "open", "closing"} :
             /\ wcAbandoned[k] > 0
             /\ wcAbandoned' = [wcAbandoned EXCEPT ![k] = @ - 1]
             /\ UNCHANGED wcWs
    /\ LET r == AttemptReconnect(wcReconnectAttempts)
       IN /\ wcReconnectAttempts' = r.attempts
          /\ wcState' = r.notify
          /\ wcFailed' = (wcFailed \/ r.notify = "failed")
          /\ wcDelays' = IF r.schedule THEN Append(wcDelays, r.delay) ELSE wcDelays
          /\ IF r.schedule
             THEN IF wcVariant = "pipecat"
                  THEN /\ wcRefTimer' = TRUE
                       /\ wcOrphanTimers' = wcOrphanTimers + (IF wcRefTimer THEN 1 ELSE 0)
                  ELSE /\ wcOrphanTimers' = wcOrphanTimers + 1
                       /\ UNCHANGED wcRefTimer
             ELSE UNCHANGED <<wcRefTimer, wcOrphanTimers>>
    /\ wcCloses' = IF wcCloses <= MaxReconnectAttempts THEN wcCloses + 1 ELSE wcCloses
    /\ UNCHANGED <<wcVariant, wcCreated>>
    /\ UNCHANGED wcOthers

\* disconnect(): clearTimeout(this.reconnectTimeout) in the variant that has
\* it, then this.ws.close() and this.ws = null.
WCDisconnect ==
    /\ wcCreated > 0
    /\ wcRefTimer' = FALSE
    /\ wcWs' = "null"
    /\ wcAbandoned' = IF wcWs \in {"connecting", "open"}
                      THEN [wcAbandoned EXCEPT !.closing = @ + 1]
                      ELSE wcAbandoned
    /\ UNCHANGED <<wcVariant, wcReconnectAttempts, wcOrphanTimers, wcState,
                   wcCreated, wcCloses, wcDelays, wcFailed>>
    /\ UNCHANGED wcOthers

NextWC ==
    \/ WCInitialConnect
    \/ WCVisibilityConnect
    \/ WCTimerFires
    \/ WCSocketOpens
    \/ WCSocketError
    \/ WCSocketCloses
    \/ WCDisconnect

\* ===================================================================
\* Streaming WebSocketManager
\* ===================================================================
WMInit ==
    /\ wmWs = "null"
    /\ wmClosing = [connecting |-> 0, open |-> 0]
    /\ wmIsConnected = FALSE
    /\ wmReconnectAttempts = 0
    /\ wmTimers = 0
    /\ wmCreated = 0
    /\ wmDisconnected = FALSE
    /\ wmDelays = <<>>

\* connect(): this.ws = new WebSocket(wsUrl).
WMConnect ==
    /\ wmCreated < MaxManagerSockets
    /\ wmCreated' = wmCreated + 1
    /\ wmWs' = "connecting"

\* VoiceCall.initialize(): this.websocket.connect().
WMInitialConnect ==
    /\ wmCreated = 0
    /\ WMConnect
    /\ UNCHANGED <<wmClosing, wmIsConnected, wmReconnectAttempts, wmTimers,
                   wmDisconnected, wmDelays>>
    /\ UNCHANGED wmOthers

\* A reconnect timer fires: connect().
WMTimerFires ==
    /\ wmTimers > 0
    /\ wmTimers' = wmTimers - 1
    /\ WMConnect
    /\ UNCHANGED <<wmClosing, wmIsConnected, wmReconnectAttempts, wmDisconnected, wmDelays>>
    /\ UNCHANGED wmOthers

\* ws.onopen.
WMSocketOpens ==
    /\ wmWs = "connecting"
    /\ wmWs' = "open"
    /\ wmIsConnected' = TRUE
    /\ wmReconnectAttempts' = 0
    /\ wmDelays' = <<>>
    /\ UNCHANGED <<wmClosing, wmTimers, wmCreated, wmDisconnected>>
    /\ UNCHANGED wmOthers

\* The delay the onclose handler gives setTimeout for attempt number k.
ReconnectDelayOf(k) == ManagerReconnectDelay

\* The onclose handler's test for scheduling a reconnect.
ShouldReconnect(clean, attempts) ==
    ~clean /\ attempts < ManagerMaxReconnectAttempts

\* The body of ws.onclose for a close event whose code is 1000 (clean) or not.
WMOnClose(clean) ==
    /\ wmIsConnected' = FALSE
    /\ IF ShouldReconnect(clean, wmReconnectAttempts)
       THEN /\ wmReconnectAttempts' = wmReconnectAttempts + 1
            /\ wmTimers' = wmTimers + 1
            /\ wmDelays' = Append(wmDelays, ReconnectDelayOf(wmReconnectAttempts + 1))
       ELSE UNCHANGED <<wmReconnectAttempts, wmTimers, wmDelays>>

\* ws.onclose of the current socket. A connection that fails before it opens
\* closes with an abnormal code; an open one closes with 1000 or another code.
WMSocketCloses ==
    \E clean \in BOOLEAN :
        /\ wmWs \in {"connecting", "open"}
        /\ wmWs = "connecting" => ~clean
        /\ wmWs' = "closed"
        /\ WMOnClose(clean)
        /\ UNCHANGED <<wmClosing, wmCreated, wmDisconnected>>
        /\ UNCHANGED wmOthers

\* ws.onclose of a socket that disconnect() closed. close(1000) on a socket
\* that was still connecting fails the connection (abnormal code); on an open
\* socket the close event carries 1000, or another code when the closing
\* handshake does not complete.
WMClosedSocketCloses ==
    \E k \in {"connecting", "open"}, clean \in BOOLEAN :
        /\ wmClosing[k] > 0
        /\ k = "connecting" => ~clean
        /\ wmClosing' = [wmClosing EXCEPT ![k] = @ - 1]
        /\ WMOnClose(clean)
        /\ UNCHANGED <<wmWs, wmCreated, wmDisconnected>>
        /\ UNCHANGED wmOthers

\* disconnect(), as called by VoiceCall.destroy(): this.ws.close(1000, ...),
\* this.ws = null, this.isConnected = false.
WMDisconnect ==
    /\ wmCreated > 0
    /\ wmWs' = "null"
    /\ wmClosing' = IF wmWs \in {"connecting", "open"}
                    THEN [wmClosing EXCEPT ![wmWs] = @ + 1]
                    ELSE wmClosing
    /\ wmIsConnected' = FALSE
    /\ wmDisconnected' = TRUE
    /\ UNCHANGED <<wmReconnectAttempts, wmTimers, wmCreated, wmDelays>>
    /\ UNCHANGED wmOthers

NextWM ==
    \/ WMInitialConnect
    \/ WMTimerFires
    \/ WMSocketOpens
    \/ WMSocketCloses
    \/ WMClosedSocketCloses
    \/ WMDisconnect

\* ===================================================================
\* ElevenLabs WebSocketManager
\* ===================================================================
ELInit ==
    /\ elWs = "null"
    /\ elTimers = 0
    /\ elState = "none"
    /\ elAttempts = 0

\* VoiceAgent.connectWebSocket(): the first connect().
ELInitialConnect ==
    /\ elWs = "null"
    /\ elWs' = "connecting"
    /\ UNCHANGED <<elTimers, elState, elAttempts>>
    /\ UNCHANGED elOthers

\* ws.onopen: notifyConnectionState('connected').
ELSocketOpens ==
    /\ elWs = "connecting"
    /\ elWs' = "open"
    /\ elState' = "connected"
    /\ elAttempts' = 0
    /\ UNCHANGED elTimers
    /\ UNCHANGED elOthers

\* ws.onerror: notifyConnectionState('error').
ELSocketError ==
    /\ elWs \in {"connecting", "open"}
    /\ elState' = "error"
    /\ UNCHANGED <<elWs, elTimers, elAttempts>>
    /\ UNCHANGED elOthers

\* ws.onclose: notifyConnectionState('disconnected'), then a reconnect in
\* three seconds, whatever the close code and the number of reconnects so far.
ELSocketCloses ==
    /\ elWs \in {"connecting", "open"}
    /\ elWs' = "closed"
    /\ elState' = "disconnected"
    /\ elTimers' = elTimers + 1
    /\ UNCHANGED elAttempts
    /\ UNCHANGED elOthers

\* The reconnect timer fires: connect().
ELTimerFires ==
    /\ elTimers > 0
    /\ elAttempts < MaxRetries
    /\ elTimers' = elTimers - 1
    /\ elWs' = "connecting"
    /\ elAttempts' = elAttempts + 1
    /\ UNCHANGED elState
    /\ UNCHANGED elOthers

\* ===================================================================
\* voice-chat VoiceCall.connectWebSocket
\* ===================================================================
VChInit ==
    /\ vchWs = "null"
    /\ vchTimers = 0
    /\ vchIsConnected = FALSE
    /\ vchAttempts = 0

\* The constructor's connectWebSocket().
VChInitialConnectBody ==
    /\ vchWs = "null"
    /\ vchWs' = "connecting"
    /\ UNCHANGED <<vchTimers, vchIsConnected, vchAttempts>>

VChInitialConnect ==
    /\ VChInitialConnectBody
    /\ UNCHANGED vchOthers

\* ws.onopen.
VChSocketOpensBody ==
    /\ vchWs = "connecting"
    /\ vchWs' = "open"
    /\ vchIsConnected' = TRUE
    /\ vchAttempts' = 0
    /\ UNCHANGED vchTimers

VChSocketOpens ==
    /\ VChSocketOpensBody
    /\ UNCHANGED vchOthers

\* ws.onclose: a reconnect in three seconds when the code is not 1000,
\* whatever the number of reconnects so far.
VChSocketClosesBody ==
    \E clean \in BOOLEAN :
        /\ vchWs \in {"connecting", "open", "closing"}
        /\ vchWs = "connecting" => ~clean
        /\ vchWs' = "closed"
        /\ vchIsConnected' = FALSE
        /\ vchTimers' = IF ~clean THEN vchTimers + 1 ELSE vchTimers
        /\ UNCHANGED vchAttempts

VChSocketCloses ==
    /\ VChSocketClosesBody
    /\ UNCHANGED vchOthers

\* The reconnect timer fires: connectWebSocket().
VChTimerFiresBody ==
    /\ vchTimers > 0
    /\ vchAttempts < MaxRetries
    /\ vchTimers' = vchTimers - 1
    /\ vchWs' = "connecting"
    /\ vchAttempts' = vchAttempts + 1
    /\ UNCHANGED vchIsConnected

VChTimerFires ==
    /\ VChTimerFiresBody
    /\ UNCHANGED vchOthers

\* The two transports that keep no count of their reconnects.
NextEL ==
    \/ ELInitialConnect
    \/ ELSocketOpens
    \/ ELSocketError
    \/ ELSocketCloses
    \/ ELTimerFires
    \/ VChInitialConnect
    \/ VChSocketOpens
    \/ VChSocketCloses
    \/ VChTimerFires

\* ===================================================================
\* Streaming UIManager
\* ===================================================================
\* A text is the sequence of its pieces; a template literal puts its label
\* in front of the pieces of the text it formats.
Labelled(label, text) == <<label>> \o text

\* The UIManager's fields and the chat area as one value, so that a handler
\* that makes several calls on the UIManager is the composition of them.
UI ==
    [chat |-> uiChat, history |-> uiHistory, cur |-> uiCurrentAiMessage,
     live |-> uiLive, status |-> uiCallStatus, button |-> uiCallButton,
     notes |-> uiNotifications]

SetUI(u) ==
    /\ uiChat' = u.chat
    /\ uiHistory' = u.history
    /\ uiCurrentAiMessage' = u.cur
    /\ uiLive' = u.live
    /\ uiCallStatus' = u.status
    /\ uiCallButton' = u.button
    /\ uiNotifications' = u.notes

\* document.createElement('div'): a node no other node of the chat area is.
FreshNode(chat) ==
    CHOOSE n \in 1..(Len(chat) + 1) :
        /\ \A i \in DOMAIN chat : chat[i].nid # n
        /\ \A m \in 1..(n - 1) : \E i \in DOMAIN chat : chat[i].nid = m

\* node.remove(): the chat area without its i-th child.
RemoveAt(chat, i) ==
    [j \in 1..(Len(chat) - 1) |-> IF j < i THEN chat[j] ELSE chat[j + 1]]

\* addMessage(content, sender): a new node at the end of the chat area and
\* an entry pushed on conversationHistory.
AddMessage(u, content, sender) ==
    [u EXCEPT !.chat = Append(@, [nid |-> FreshNode(u.chat), cls |-> sender,
                                   text |-> content, cur |-> FALSE, id |-> ""]),
              !.history = Append(@, [content |-> content, sender |-> sender])]

AddSystemMessage(u, content) == AddMessage(u, content, "system")

AddErrorMessage(u, content) == AddMessage(u, Labelled("X ", content), "error")

AddUserMessage(u, content) == AddMessage(u, Labelled("You: ", content), "user")

\* startAiResponse(): a new node of class 'message ai current-response' and
\* id 'current-ai-response', remembered in currentAiMessage.  The node
\* currentAiMessage referred to before is left as it is.
StartAiResponse(u) ==
    LET n == FreshNode(u.chat)
    IN [u EXCEPT !.chat = Append(@, [nid |-> n, cls |-> "ai", text |-> <<>>,
                                      cur |-> TRUE, id |-> "current-ai-response"]),
                 !.cur = n]

\* The position in the chat area of the node numbered n (0 if detached).
PosOf(chat, n) ==
    IF \E i \in DOMAIN chat : chat[i].nid = n
    THEN CHOOSE i \in DOMAIN chat : chat[i].nid = n
    ELSE 0

\* updateAiResponse(fullText).
UpdateAiResponse(u, fullText) ==
    IF u.cur # 0 /\ PosOf(u.chat, u.cur) # 0
    THEN [u EXCEPT !.chat[PosOf(u.chat, u.cur)].text = fullText]
    ELSE u

\* finishAiResponse(finalText) adding the final text as a new entry.
FinishAiResponseAppending(u, finalText) ==
    IF u.cur = 0 THEN u
    ELSE [AddMessage(u, Labelled("AI: ", finalText), "ai") EXCEPT !.cur = 0]

\* finishAiResponse(finalText).
FinishAiResponse(u, finalText) ==
    IF u.cur = 0 THEN u
    ELSE IF PosOf(u.chat, u.cur) = 0 THEN [u EXCEPT !.cur = 0]
    ELSE [u EXCEPT !.chat[PosOf(u.chat, u.cur)] =
                        [@ EXCEPT !.cur = FALSE,
                                  !.text = Labelled("AI: ", finalText),
                                  !.id = ""],
                   !.cur = 0]

\* The first node of the chat area with id 'live-transcription' (getElementById).
FirstLive(chat) ==
    IF \E i \in DOMAIN chat : chat[i].id = "live-transcription"
    THEN CHOOSE i \in DOMAIN chat :
             /\ chat[i].id = "live-transcription"
             /\ \A j \in 1..(i - 1) : chat[j].id # "live-transcription"
    ELSE 0

\* removeLiveTranscription(): removes the node liveTranscriptionElement
\* refers to, then the first node found by id.
RemoveLiveTranscription(u) ==
    LET c1 == IF u.live # 0 /\ PosOf(u.chat, u.live) # 0
              THEN RemoveAt(u.chat, PosOf(u.chat, u.live))
              ELSE u.chat
        c2 == IF FirstLive(c1) # 0 THEN RemoveAt(c1, FirstLive(c1)) ELSE c1
    IN [u EXCEPT !.chat = c2, !.live = 0]

\* showLiveTranscription(text).
ShowLiveTranscription(u, text) ==
    LET r == RemoveLiveTranscription(u)
        n == FreshNode(r.chat)
    IN [r EXCEPT !.chat = Append(@, [nid |-> n, cls |-> "live-transcription",
                                      text |-> Labelled("mic ", text),
                                      cur |-> FALSE, id |-> "live-transcription"]),
                 !.live = n]

\* clearChatArea().
ClearChatArea(u) ==
    [u EXCEPT !.chat = <<>>, !.history = <<>>, !.cur = 0, !.live = 0]

\* showWelcomeMessage(): a node in the chat area, nothing in conversationHistory.
ShowWelcomeMessage(u) ==
    [u EXCEPT !.chat = Append(@, [nid |-> FreshNode(u.chat), cls |-> "welcome-message",
                                   text |-> <<"Voice Call with AI">>,
                                   cur |-> FALSE, id |-> ""])]

UpdateCallStatus(u, message) == [u EXCEPT !.status = message]

UpdateCallButton(u, isOnCall) == [u EXCEPT !.button = isOnCall]

\* showNotification(message, type): a notification element on the page,
\* removed by a timer after five seconds.
ShowNotification(u) == [u EXCEPT !.notes = @ + 1]

\* The nodes of the chat area that carry the class 'current-response'.
CurrentResponseNodes == {i \in DOMAIN uiChat : uiChat[i].cur}

\* The live-transcription nodes of the chat area.
LiveNodes == {i \in DOMAIN uiChat : uiChat[i].cls = "live-transcription"}

UIInit ==
    /\ uiChat = <<>>
    /\ uiHistory = <<>>
    /\ uiCurrentAiMessage = 0
    /\ uiLive = 0
    /\ uiCallStatus = ""
    /\ uiCallButton = FALSE
    /\ uiNotifications = 0

\* ===================================================================
\* Streaming SpeechRecognitionManager and VoiceCall
\* ===================================================================
\* The whitespace piece of a text.
Blank == " "

\* String.prototype.trim(): the text without its leading and trailing
\* whitespace pieces.
RECURSIVE TrimLeft(_)
TrimLeft(t) ==
    IF t # <<>> /\ Head(t) = Blank THEN TrimLeft(Tail(t)) ELSE t

RECURSIVE TrimRight(_)
TrimRight(t) ==
    IF t # <<>> /\ t[Len(t)] = Blank THEN TrimRight(SubSeq(t, 1, Len(t) - 1)) ELSE t

\* A trim() that returns its text as it is.
NoTrim(t) == t

Trim(t) == TrimRight(TrimLeft(t))

\* The transcripts the recognition engine reports.
Transcripts == {<<Blank, "hello", Blank>>, <<Blank>>}

\* The results event.results holds from event.resultIndex on.
ResultLists ==
    UNION {[1..n -> [transcript : Transcripts, isFinal : BOOLEAN]] : n \in 1..MaxResults}

\* The texts the server streams for an assistant response.
AiTexts == {<<"A">>, <<"A", "B">>}

SRInit ==
    /\ srSupported = "unknown"
    /\ srIsListening = FALSE
    /\ srEngine = "idle"
    /\ srShould = "undefined"
    /\ srWrappers = 0
    /\ srTimers = 0
    /\ srStartCalls = 0
    /\ srSkipped = FALSE
    /\ srAfterError = FALSE
    /\ srRestarts = 0

VCInit ==
    /\ vcIsOnCall = FALSE
    /\ vcIsConnected = FALSE
    /\ vcWs = "none"
    /\ vcClosePending = 0
    /\ vcReconnectTimer = FALSE
    /\ vcRestartTimers = 0
    /\ vcStatusTimers = 0
    /\ vcSent = <<>>
    /\ vcEvent = [op |-> "none"]

\* SpeechRecognitionManager.start(): the value it returns (ret), whether it
\* called callbacks.onError (err), whether it called recognition.start()
\* (issued), and the recognition session afterwards.  recognition.start()
\* throws when a session is in progress.
SRStart(supported, isListening, engine) ==
    IF supported # "true"
    THEN [ret |-> FALSE, err |-> TRUE, issued |-> FALSE, engine |-> engine]
    ELSE IF ~isListening
    THEN IF engine = "idle"
         THEN [ret |-> TRUE, err |-> FALSE, issued |-> TRUE, engine |-> "starting"]
         ELSE [ret |-> FALSE, err |-> TRUE, issued |-> TRUE, engine |-> engine]
    ELSE [ret |-> FALSE, err |-> FALSE, issued |-> FALSE, engine |-> engine]

\* SpeechRecognitionManager.stop(): the recognition session afterwards.
SRStop(isListening, engine) ==
    IF isListening /\ engine = "running" THEN "stopping" ELSE engine

\* VoiceCall.handleSpeechError(error).
HandleSpeechError(u, isOnCall) ==
    IF isOnCall THEN UpdateCallStatus(u, "On Call - Speak naturally") ELSE u

\* The count of recognition.start() calls, kept modulo 2.
Issued(n, issued) == IF issued THEN (n + 1) % 2 ELSE n

\* The page constructs the VoiceCall: the managers are created, initialize()
\* connects the WebSocketManager and shows the welcome message.
VCInitialize ==
    /\ vcWs = "none"
    /\ srSupported' \in {"true", "false"}
    /\ vcWs' = "connecting"
    /\ SetUI(UpdateCallStatus(ShowWelcomeMessage(UI), "Ready to call"))
    /\ vcEvent' = [op |-> "other"]
    /\ UNCHANGED <<srIsListening, srEngine, srShould, srWrappers, srTimers,
                   srStartCalls, srSkipped, srAfterError, srRestarts>>
    /\ UNCHANGED <<vcIsOnCall, vcIsConnected, vcClosePending, vcReconnectTimer,
                   vcRestartTimers, vcStatusTimers, vcSent>>
    /\ UNCHANGED amVars
    /\ UNCHANGED callOthers

\* startCall().
StartCall ==
    /\ vcWs # "none"
    /\ vcEvent' = [op |-> "startCall", connected |-> vcIsConnected,
                   onCall |-> vcIsOnCall, supported |-> srSupported = "true"]
    /\ IF ~vcIsConnected \/ vcIsOnCall
       THEN UNCHANGED <<uiVars, srVars, vcIsOnCall>>
       ELSE IF srSupported # "true"
       THEN /\ SetUI(ShowNotification(UpdateCallStatus(UI,
                        "Speech recognition not supported in this browser")))
            /\ uiNotifications < MaxNotifications
            /\ UNCHANGED <<srVars, vcIsOnCall>>
       ELSE LET r  == SRStart(srSupported, srIsListening, srEngine)
                u1 == UpdateCallButton(UI, TRUE)
                u2 == UpdateCallStatus(u1, "On Call - Speak naturally")
                u3 == AddSystemMessage(ClearChatArea(u2), <<"Call started with AI">>)
                u4 == IF r.err THEN HandleSpeechError(u3, TRUE) ELSE u3
                u5 == UpdateCallStatus(u4, "Failed to start call")
                u6 == AddErrorMessage(u5, <<"Failed to start call: ",
                                            "Failed to start speech recognition">>)
            IN /\ srEngine' = r.engine
               /\ srStartCalls' = Issued(srStartCalls, r.issued)
               /\ srSkipped' = FALSE
               /\ srAfterError' = FALSE
               /\ IF r.ret
                  THEN /\ srWrappers < MaxCalls
                       /\ srWrappers' = srWrappers + 1
                       /\ srShould' = "true"
                       /\ vcIsOnCall' = TRUE
                       /\ SetUI(u4)
                  ELSE /\ vcIsOnCall' = FALSE
                       /\ SetUI(UpdateCallButton(u6, FALSE))
                       /\ UNCHANGED <<srWrappers, srShould>>
               /\ UNCHANGED <<srSupported, srIsListening, srTimers, srRestarts>>
    /\ UNCHANGED <<vcIsConnected, vcWs, vcClosePending, vcReconnectTimer,
                   vcRestartTimers, vcStatusTimers, vcSent>>
    /\ UNCHANGED amVars
    /\ UNCHANGED callOthers

\* The part of endCall() after its guard: what it does to the UIManager.
EndCallUI(u) ==
    AddSystemMessage(
        UpdateCallStatus(UpdateCallButton(RemoveLiveTranscription(u), FALSE),
                         "Call ended"),
        <<"Call ended">>)

\* audio.stopAll(), as endCall() and destroy() call it.
StopAllOfCall ==
    /\ LET s == StopCurrentAudio(amAudio, amCurrentAudio)
       IN /\ amAudio' = s.audio
          /\ amCurrentAudio' = s.cur
          /\ amIsPlaying' = s.isPlaying
    /\ amQueue' = <<>>
    /\ UNCHANGED <<amNextFrag, amFailed, amUrls>>

\* The part of endCall() after its guard, on a UIManager in state u.
EndCallBody(u) ==
    /\ vcStatusTimers < MaxStatusTimers
    /\ Len(u.chat) < MaxChat
    /\ vcIsOnCall' = FALSE
    /\ srShould' = "false"
    /\ srEngine' = SRStop(srIsListening, srEngine)
    /\ srSkipped' = FALSE
    /\ StopAllOfCall
    /\ SetUI(EndCallUI(u))
    /\ vcStatusTimers' = vcStatusTimers + 1
    /\ UNCHANGED <<srSupported, srIsListening, srWrappers, srTimers,
                   srStartCalls, srAfterError, srRestarts>>

\* The calls endCall() makes after its guard, in the order it makes them.
EndCallOrder ==
    <<"stopContinuous", "stopAll", "removeLiveTranscription", "updateCallButton",
      "updateCallStatus", "addSystemMessage", "setTimeout">>

\* endCall() without its guard.
EndCallUnguarded ==
    /\ vcWs # "none"
    /\ vcEvent' = [op |-> "endCall", onCall |-> vcIsOnCall, calls |-> EndCallOrder]
    /\ EndCallBody(UI)
    /\ UNCHANGED <<vcIsConnected, vcWs, vcClosePending, vcReconnectTimer,
                   vcRestartTimers, vcSent>>
    /\ UNCHANGED callOthers

\* endCall().
EndCall ==
    /\ vcWs # "none"
    /\ vcEvent' = [op |-> "endCall", onCall |-> vcIsOnCall,
                   calls |-> IF vcIsOnCall THEN EndCallOrder ELSE <<>>]
    /\ IF ~vcIsOnCall
       THEN UNCHANGED <<uiVars, srVars, vcIsOnCall, vcStatusTimers, amVars>>
       ELSE EndCallBody(UI)
    /\ UNCHANGED <<vcIsConnected, vcWs, vcClosePending, vcReconnectTimer,
                   vcRestartTimers, vcSent>>
    /\ UNCHANGED callOthers

\* destroy(): endCall(), websocket.disconnect(), audio.stopAll().
Destroy ==
    /\ vcWs # "none"
    /\ vcEvent' = [op |-> "destroy", onCall |-> vcIsOnCall]
    /\ IF vcIsOnCall
       THEN EndCallBody(UI)
       ELSE /\ StopAllOfCall
            /\ UNCHANGED <<uiVars, srVars, vcIsOnCall, vcStatusTimers>>
    /\ vcWs' = "null"
    /\ IF vcWs \in {"connecting", "open", "closing"}
       THEN /\ vcClosePending < MaxClosePending
            /\ vcClosePending' = vcClosePending + 1
       ELSE UNCHANGED vcClosePending
    /\ UNCHANGED <<vcIsConnected, vcReconnectTimer, vcRestartTimers, vcSent>>
    /\ UNCHANGED callOthers

\* recognition.onstart.
SROnStart ==
    /\ srEngine = "starting"
    /\ srEngine' = "running"
    /\ srIsListening' = TRUE
    /\ vcEvent' = [op |-> "other"]
    /\ UNCHANGED <<srSupported, srShould, srWrappers, srTimers, srStartCalls,
                   srSkipped, srAfterError, srRestarts>>
    /\ UNCHANGED <<vcIsOnCall, vcIsConnected, vcWs, vcClosePending, vcReconnectTimer,
                   vcRestartTimers, vcStatusTimers, vcSent>>
    /\ UNCHANGED <<uiVars, amVars>>
    /\ UNCHANGED callOthers

\* The loop of recognition.onresult: interimTranscript is the concatenation
\* of the transcripts that are not final.
RECURSIVE InterimTranscript(_)
InterimTranscript(results) ==
    IF results = <<>> THEN <<>>
    ELSE (IF Head(results).isFinal THEN <<>> ELSE Head(results).transcript)
         \o InterimTranscript(Tail(results))

\* finalTranscript is the concatenation of the final transcripts, each
\* followed by a space.
RECURSIVE FinalTranscript(_)
FinalTranscript(results) ==
    IF results = <<>> THEN <<>>
    ELSE (IF Head(results).isFinal THEN Head(results).transcript \o <<Blank>> ELSE <<>>)
         \o FinalTranscript(Tail(results))

\* WebSocketManager.sendMessage succeeds when this.ws is an open socket.
CanSend(ws) == ws = "open"

\* VoiceCall.sendTranscription(text): the UIManager and the sent messages
\* afterwards.
SendTranscription(u, sent, text, isConnected, ws) ==
    IF ~isConnected \/ Trim(text) = <<>>
    THEN [ui |-> u, sent |-> sent]
    ELSE IF CanSend(ws)
    THEN [ui   |-> UpdateCallStatus(AddUserMessage(u, Trim(text)),
                                    "Waiting for AI response..."),
          sent |-> Append(sent, [type |-> "user_speech", content |-> Trim(Trim(text))])]
    ELSE [ui   |-> AddErrorMessage(u, <<"Failed to send message: ",
                                       "Failed to send message via WebSocket">>),
          sent |-> sent]

\* VoiceCall.handleInterimSpeechResult(text).
HandleInterimSpeechResult(u, text) ==
    UpdateCallStatus(ShowLiveTranscription(u, text), "Speaking")

\* handleSpeechResult(text) that leaves the live transcription in place.
HandleSpeechResultKeepingLive(u, sent, text, isConnected, ws) ==
    SendTranscription(u, sent, text, isConnected, ws)

\* VoiceCall.handleSpeechResult(text).
HandleSpeechResult(u, sent, text, isConnected, ws) ==
    SendTranscription(RemoveLiveTranscription(u), sent, text, isConnected, ws)

\* recognition.onresult for an event that carries the given results, with
\* the callbacks VoiceCall registered.
SROnResultWith(results) ==
    /\ srEngine \in {"running", "stopping"}
    /\ Len(vcSent) < MaxSent
    /\ Len(uiChat) + 1 < MaxChat
    /\   LET interim == Trim(InterimTranscript(results))
             final   == Trim(FinalTranscript(results))
             u1 == IF interim # <<>> THEN HandleInterimSpeechResult(UI, interim) ELSE UI
             r  == IF final # <<>>
                   THEN HandleSpeechResult(u1, vcSent, final, vcIsConnected, vcWs)
                   ELSE [ui |-> u1, sent |-> vcSent]
         IN /\ SetUI(r.ui)
            /\ vcSent' = r.sent
            /\ vcEvent' = [op |-> "other"]
    /\ UNCHANGED srVars
    /\ UNCHANGED <<vcIsOnCall, vcIsConnected, vcWs, vcClosePending, vcReconnectTimer,
                   vcRestartTimers, vcStatusTimers>>
    /\ UNCHANGED amVars
    /\ UNCHANGED callOthers

SROnResult == \E results \in ResultLists : SROnResultWith(results)

\* recognition.onerror, with VoiceCall.handleSpeechError.
SROnError ==
    /\ srEngine \in {"starting", "running", "stopping"}
    /\ srEngine' = "failed"
    /\ srIsListening' = FALSE
    /\ srAfterError' = (srAfterError \/ srIsListening)
    /\ SetUI(HandleSpeechError(UI, vcIsOnCall))
    /\ vcEvent' = [op |-> "other"]
    /\ UNCHANGED <<srSupported, srShould, srWrappers, srTimers, srStartCalls,
                   srSkipped, srRestarts>>
    /\ UNCHANGED <<vcIsOnCall, vcIsConnected, vcWs, vcClosePending, vcReconnectTimer,
                   vcRestartTimers, vcStatusTimers, vcSent>>
    /\ UNCHANGED amVars
    /\ UNCHANGED callOthers

\* VoiceCall.handleSpeechEnd(): the UIManager afterwards; it sets a 100 ms
\* timer when the call is active.
HandleSpeechEnd(u, isOnCall) ==
    IF isOnCall
    THEN UpdateCallStatus(RemoveLiveTranscription(u), "On Call - Speak naturally")
    ELSE RemoveLiveTranscription(u)

\* recognition.onend: callbacks.onEnd is handleSpeechEnd wrapped once by
\* every successful startContinuous(); each wrapper sets a 100 ms timer when
\* shouldContinueListening is true.
SROnEnd ==
    /\ srEngine \in {"running", "stopping", "failed"}
    /\ srEngine' = "idle"
    /\ srIsListening' = FALSE
    /\ SetUI(HandleSpeechEnd(UI, vcIsOnCall))
    /\ IF vcIsOnCall
       THEN /\ vcRestartTimers < MaxRestartTimers
            /\ vcRestartTimers' = vcRestartTimers + 1
       ELSE UNCHANGED vcRestartTimers
    /\ IF srShould = "true"
       THEN /\ srTimers + srWrappers <= MaxRestartTimers
            /\ srTimers' = srTimers + srWrappers
       ELSE UNCHANGED srTimers
    /\ srRestarts' = IF srTimers = 0 /\ vcRestartTimers = 0 THEN 0 ELSE -1
    /\ vcEvent' = [op |-> "other"]
    /\ UNCHANGED <<srSupported, srShould, srWrappers, srStartCalls,
                   srSkipped, srAfterError>>
    /\ UNCHANGED <<vcIsOnCall, vcIsConnected, vcWs, vcClosePending, vcReconnectTimer,
                   vcStatusTimers, vcSent>>
    /\ UNCHANGED amVars
    /\ UNCHANGED callOthers

\* A restart timer fires and its condition holds (go) or does not: the
\* callback calls SpeechRecognitionManager.start() or does nothing.
RestartTimerBody(go) ==
    LET r == SRStart(srSupported, srIsListening, srEngine)
    IN /\ vcEvent' = [op |-> "other"]
       /\ IF go
          THEN /\ srEngine' = r.engine
               /\ srStartCalls' = Issued(srStartCalls, r.issued)
               /\ srRestarts' = IF r.issued /\ srRestarts >= 0
                                THEN srRestarts + 1 ELSE srRestarts
               /\ SetUI(IF r.err THEN HandleSpeechError(UI, vcIsOnCall) ELSE UI)
               /\ UNCHANGED srSkipped
          ELSE /\ srSkipped' = (srShould = "false")
               /\ UNCHANGED <<srEngine, srStartCalls, srRestarts, uiVars>>
       /\ UNCHANGED <<srSupported, srIsListening, srShould, srWrappers,
                      srAfterError>>
       /\ UNCHANGED <<vcIsOnCall, vcIsConnected, vcWs, vcClosePending,
                      vcReconnectTimer, vcStatusTimers, vcSent>>
       /\ UNCHANGED amVars
       /\ UNCHANGED callOthers

\* The timer of an onEnd wrapper that restarts without looking at
\* shouldContinueListening.
SRTimerFiresUnchecked ==
    /\ srTimers > 0
    /\ srTimers' = srTimers - 1
    /\ UNCHANGED vcRestartTimers
    /\ RestartTimerBody(TRUE)

\* The 100 ms timer of an onEnd wrapper of startContinuous() fires.
SRTimerFires ==
    /\ srTimers > 0
    /\ srTimers' = srTimers - 1
    /\ UNCHANGED vcRestartTimers
    /\ RestartTimerBody(srShould = "true")

\* The 100 ms timer of handleSpeechEnd fires.
VCRestartTimerFires ==
    /\ vcRestartTimers > 0
    /\ vcRestartTimers' = vcRestartTimers - 1
    /\ UNCHANGED srTimers
    /\ RestartTimerBody(vcIsOnCall)

\* The 2000 ms timer of endCall fires.
VCStatusTimerFires ==
    /\ vcStatusTimers > 0
    /\ vcStatusTimers' = vcStatusTimers - 1
    /\ SetUI(UpdateCallStatus(UI, "Ready to call"))
    /\ vcEvent' = [op |-> "other"]
    /\ UNCHANGED srVars
    /\ UNCHANGED <<vcIsOnCall, vcIsConnected, vcWs, vcClosePending, vcReconnectTimer,
                   vcRestartTimers, vcSent>>
    /\ UNCHANGED amVars
    /\ UNCHANGED callOthers

\* The five-second timer of showNotification fires.
NotificationTimerFires ==
    /\ uiNotifications > 0
    /\ uiNotifications' = uiNotifications - 1
    /\ vcEvent' = [op |-> "other"]
    /\ UNCHANGED <<uiChat, uiHistory, uiCurrentAiMessage, uiLive, uiCallStatus,
                   uiCallButton>>
    /\ UNCHANGED srVars
    /\ UNCHANGED <<vcIsOnCall, vcIsConnected, vcWs, vcClosePending, vcReconnectTimer,
                   vcRestartTimers, vcStatusTimers, vcSent>>
    /\ UNCHANGED amVars
    /\ UNCHANGED callOthers

\* ws.onopen of the WebSocketManager, with VoiceCall.handleWebSocketOpen.
VCSocketOpens ==
    /\ vcWs = "connecting"
    /\ Len(uiChat) < MaxChat
    /\ vcWs' = "open"
    /\ vcIsConnected' = TRUE
    /\ SetUI(AddSystemMessage(UI, <<"Connected to streaming voice chat">>))
    /\ vcEvent' = [op |-> "other"]
    /\ UNCHANGED srVars
    /\ UNCHANGED <<vcIsOnCall, vcClosePending, vcReconnectTimer, vcRestartTimers,
                   vcStatusTimers, vcSent>>
    /\ UNCHANGED amVars
    /\ UNCHANGED callOthers

\* The closing handshake of the open socket starts: readyState is CLOSING
\* until the close event is delivered.
VCSocketStartsClosing ==
    /\ vcWs = "open"
    /\ vcWs' = "closing"
    /\ vcEvent' = [op |-> "other"]
    /\ UNCHANGED <<uiVars, srVars, amVars>>
    /\ UNCHANGED <<vcIsOnCall, vcIsConnected, vcClosePending, vcReconnectTimer,
                   vcRestartTimers, vcStatusTimers, vcSent>>
    /\ UNCHANGED callOthers

\* VoiceCall.handleWebSocketClose(event).
HandleWebSocketClose ==
    /\ Len(uiChat) < MaxChat
    /\ vcIsConnected' = FALSE
    /\ LET Disconnected(u) == AddSystemMessage(u, <<"Disconnected from server">>)
       IN IF vcIsOnCall
          THEN EndCallBody(Disconnected(UI))
          ELSE /\ SetUI(Disconnected(UI))
               /\ UNCHANGED <<srVars, vcIsOnCall, vcStatusTimers, amVars>>

\* ws.onclose of the socket the WebSocketManager refers to: the manager may
\* set a reconnect timer (the close was not clean and attempts are left).
VCSocketCloses ==
    /\ vcWs \in {"connecting", "open", "closing"}
    /\ vcWs' = "closed"
    /\ HandleWebSocketClose
    /\ vcReconnectTimer' \in {vcReconnectTimer, TRUE}
    /\ vcEvent' = [op |-> "other"]
    /\ UNCHANGED <<vcClosePending, vcRestartTimers, vcSent>>
    /\ UNCHANGED callOthers

\* ws.onclose of a socket disconnect() closed.
VCClosedSocketCloses ==
    /\ vcClosePending > 0
    /\ vcClosePending' = vcClosePending - 1
    /\ HandleWebSocketClose
    /\ vcEvent' = [op |-> "other"]
    /\ UNCHANGED <<vcWs, vcReconnectTimer, vcRestartTimers, vcSent>>
    /\ UNCHANGED callOthers

\* The reconnect timer of the WebSocketManager fires: connect().
VCReconnectTimerFires ==
    /\ vcReconnectTimer
    /\ vcWs \in {"closed", "null"}
    /\ vcReconnectTimer' = FALSE
    /\ vcWs' = "connecting"
    /\ vcEvent' = [op |-> "other"]
    /\ UNCHANGED <<uiVars, srVars, amVars>>
    /\ UNCHANGED <<vcIsOnCall, vcIsConnected, vcClosePending, vcRestartTimers,
                   vcStatusTimers, vcSent>>
    /\ UNCHANGED callOthers

\* handleWebSocketMessage(message) that reports a type it has no case for
\* as an error entry.
UIMessageReportingUnknown(type, text) ==
    CASE type = "ai_typing" -> UpdateCallStatus(UI, "AI is thinking...")
      [] type = "ai_response_start" -> StartAiResponse(UI)
      [] type = "ai_chunk" ->
             UpdateCallStatus(UpdateAiResponse(UI, text), "On Call - AI is responding...")
      [] type = "ai_response_complete" ->
             UpdateCallStatus(FinishAiResponse(UI, text), "On Call - Speak naturally")
      [] type = "ai_response" ->
             UpdateCallStatus(AddMessage(UI, Labelled("AI: ", text), "ai"),
                              "On Call - Speak naturally")
      [] type = "system" -> AddSystemMessage(UI, text)
      [] type = "error" -> AddErrorMessage(UI, text)
      [] OTHER -> AddErrorMessage(UI, <<"Unknown message type">>)

\* VoiceCall.handleWebSocketMessage(message) for the message types that
\* reach the UIManager; text is message.full_text || message.content.
UIMessage(type, text) ==
    CASE type = "ai_typing" -> UpdateCallStatus(UI, "AI is thinking...")
      [] type = "ai_response_start" -> StartAiResponse(UI)
      [] type = "ai_chunk" ->
             UpdateCallStatus(UpdateAiResponse(UI, text), "On Call - AI is responding...")
      [] type = "ai_response_complete" ->
             UpdateCallStatus(FinishAiResponse(UI, text), "On Call - Speak naturally")
      [] type = "ai_response" ->
             UpdateCallStatus(AddMessage(UI, Labelled("AI: ", text), "ai"),
                              "On Call - Speak naturally")
      [] type = "system" -> AddSystemMessage(UI, text)
      [] type = "error" -> AddErrorMessage(UI, text)
      [] OTHER -> UI

\* ws.onmessage of the open socket, for a message of the given type and text.
VCMessageWith(type, text) ==
    /\ vcWs = "open"
    /\ Len(uiChat) < MaxChat
    /\ SetUI(UIMessage(type, text))
    /\ vcEvent' = [op |-> "other"]
    /\ UNCHANGED <<srVars, amVars>>
    /\ UNCHANGED <<vcIsOnCall, vcIsConnected, vcWs, vcClosePending, vcReconnectTimer,
                   vcRestartTimers, vcStatusTimers, vcSent>>
    /\ UNCHANGED callOthers

VCMessage(type) == \E text \in AiTexts : VCMessageWith(type, text)

VCAiTyping == VCMessage("ai_typing")
VCAiResponseStart == VCMessage("ai_response_start")
VCAiChunk == VCMessage("ai_chunk")
VCAiResponseComplete == VCMessage("ai_response_complete")
VCAiResponse == VCMessage("ai_response")
VCSystemMessage == VCMessage("system")
VCErrorMessage == VCMessage("error")
VCUnknownMessage == VCMessage("frobnicate")

\* The streaming VoiceCall and the text messages of the server.
NextUI ==
    \/ VCInitialize
    \/ StartCall
    \/ VCSocketOpens
    \/ VCAiTyping
    \/ VCAiResponseStart
    \/ VCAiChunk
    \/ VCAiResponseComplete
    \/ VCAiResponse
    \/ VCSystemMessage
    \/ VCErrorMessage
    \/ VCUnknownMessage

\* The streaming VoiceCall: the user's clicks, the recognition events, the
\* timers and the socket events.
NextCall ==
    \/ VCInitialize
    \/ StartCall
    \/ EndCall
    \/ Destroy
    \/ SROnStart
    \/ SROnError
    \/ SROnEnd
    \/ SRTimerFires
    \/ VCRestartTimerFires
    \/ VCStatusTimerFires
    \/ NotificationTimerFires
    \/ VCSocketOpens
    \/ VCSocketStartsClosing
    \/ VCSocketCloses
    \/ VCClosedSocketCloses
    \/ VCReconnectTimerFires

\* ===================================================================
\* SpeechManager (openai + pipecat, app.js)
\* ===================================================================
SMInit ==
    /\ smSupported = "unknown"
    /\ smIsRecording = FALSE
    /\ smAccumulated = <<>>
    /\ smEngine = "idle"
    /\ smDelivered = <<>>

\* The page constructs the SpeechManager: initializeSpeechRecognition().
SMConstruct ==
    /\ smSupported = "unknown"
    /\ smSupported' \in {"true", "false"}
    /\ UNCHANGED <<smIsRecording, smAccumulated, smEngine, smDelivered>>
    /\ UNCHANGED smOthers

\* start(): recognition.start() throws when a session is in progress, and
\* the catch block calls reset().
SMStart ==
    /\ smSupported \in {"true", "false"}
    /\ IF smSupported = "false"
       THEN UNCHANGED <<smIsRecording, smAccumulated, smEngine>>
       ELSE /\ smAccumulated' = <<>>
            /\ IF smEngine = "idle"
               THEN smIsRecording' = TRUE /\ smEngine' = "running"
               ELSE smIsRecording' = FALSE /\ UNCHANGED smEngine
    /\ UNCHANGED <<smSupported, smDelivered>>
    /\ UNCHANGED smOthers

\* The loop of recognition.onresult: finalTranscript is the concatenation of
\* the final transcripts.
RECURSIVE SMFinalTranscript(_)
SMFinalTranscript(results) ==
    IF results = <<>> THEN <<>>
    ELSE (IF Head(results).isFinal THEN Head(results).transcript ELSE <<>>)
         \o SMFinalTranscript(Tail(results))

\* recognition.onresult for an event that carries the given results.
SMOnResultWith(results) ==
    /\ smEngine \in {"running", "stopping"}
    /\ Len(smAccumulated) + Len(SMFinalTranscript(results)) <= MaxAccumulated
    /\ smAccumulated' = smAccumulated \o SMFinalTranscript(results)
    /\ UNCHANGED <<smSupported, smIsRecording, smEngine, smDelivered>>
    /\ UNCHANGED smOthers

SMOnResult == \E results \in ResultLists : SMOnResultWith(results)

\* stop(): the engine and the deliveries afterwards; accumulatedTranscript
\* is read and left as it is.
SMStopBody ==
    IF ~smIsRecording
    THEN UNCHANGED <<smIsRecording, smEngine, smDelivered>>
    ELSE /\ Len(smDelivered) < MaxSessions
         /\ smIsRecording' = FALSE
         /\ smEngine' = IF smEngine = "running" THEN "stopping" ELSE smEngine
         /\ smDelivered' = Append(smDelivered, Trim(smAccumulated))

\* stop(), as VoiceAssistant.stopRecording() calls it.
SMStop ==
    /\ smSupported \in {"true", "false"}
    /\ SMStopBody
    /\ UNCHANGED <<smSupported, smAccumulated>>
    /\ UNCHANGED smOthers

\* recognition.onerror: the subscribers are notified and stop() is called.
SMOnError ==
    /\ smEngine \in {"running", "stopping"}
    /\ SMStopBody
    /\ UNCHANGED <<smSupported, smAccumulated>>
    /\ UNCHANGED smOthers

\* recognition.onend: the session is restarted while isRecording is true.
SMOnEnd ==
    /\ smEngine \in {"running", "stopping"}
    /\ smEngine' = IF smIsRecording THEN "running" ELSE "idle"
    /\ UNCHANGED <<smSupported, smIsRecording, smAccumulated, smDelivered>>
    /\ UNCHANGED smOthers

NextSM ==
    \/ SMConstruct
    \/ SMStart
    \/ SMOnResult
    \/ SMStop
    \/ SMOnError
    \/ SMOnEnd

\* The streaming VoiceCall during calls: the user's clicks, the recognition
\* results and ends, the restart timers, and the socket opening and closing.
NextTranscribe ==
    \/ VCInitialize
    \/ VCSocketOpens
    \/ VCSocketStartsClosing
    \/ VCSocketCloses
    \/ StartCall
    \/ EndCall
    \/ SROnStart
    \/ SROnResult
    \/ SROnEnd
    \/ SRTimerFires
    \/ VCRestartTimerFires
    \/ VCStatusTimerFires

\* ===================================================================
\* sendMessage of WebSocketClient and of the streaming WebSocketManager
\* ===================================================================
\* The messages the callers build: an object with a type and a content.
OutMessages ==
    {[type |-> "user_speech", content |-> <<"hello">>],
     [type |-> "user_speech", content |-> <<"hi", Blank, "there">>]}

\* JSON.stringify(message) for an object {type, content}: the text of the
\* object, as the sequence of its pieces.
JSONStringify(message) ==
    <<"{", "type:", message.type, ",", "content:">> \o message.content \o <<"}">>

\* JSON.parse(data): the object a text of that form stands for; any other
\* text makes it throw a SyntaxError.
JSONParse(data) ==
    IF /\ Len(data) >= 6
       /\ data[1] = "{" /\ data[2] = "type:" /\ data[4] = "," /\ data[5] = "content:"
       /\ data[Len(data)] = "}"
    THEN [ok |-> TRUE,
          value |-> [type |-> data[3], content |-> SubSeq(data, 6, Len(data) - 1)]]
    ELSE [ok |-> FALSE, value |-> [type |-> "", content |-> <<>>]]

\* ws.send(text): a text frame.
TextFrame(text) == [kind |-> "text", data |-> text]

\* No frame received yet.
NoFrame == [data |-> <<>>, invoked |-> <<>>, threw |-> FALSE]

IOInit ==
    /\ wcFrames = <<>>
    /\ wcSendRet = "none"
    /\ wmFrames = <<>>
    /\ wmSendRet = "none"
    /\ wcHandlers = <<>>
    /\ wcRegs = <<>>
    /\ wcRx = NoFrame
    /\ elHandlers = <<>>
    /\ elRegs = <<>>
    /\ elRx = NoFrame
    /\ wmRx = [data |-> <<>>, delivered |-> FALSE, threw |-> FALSE]
    /\ elBadSeen = FALSE
    /\ wmBadSeen = FALSE

\* WebSocketClient.sendMessage(message) when this.ws is in state ws: what it
\* returns and the frames it gives to ws.send.
WCSendMessageResult(ws, message) ==
    IF ws # "null" /\ ws = "open"
    THEN [ret |-> "true", frames |-> <<TextFrame(JSONStringify(message))>>]
    ELSE [ret |-> "false", frames |-> <<>>]

\* sendMessage(message) that does not look at readyState: send() on a
\* connecting socket throws, on a closing or closed one it discards the data.
WMSendMessageUnchecked(ws, message) ==
    IF ws = "null" \/ ws = "connecting"
    THEN [ret |-> "threw", frames |-> <<>>]
    ELSE IF ws = "open"
    THEN [ret |-> "true", frames |-> <<TextFrame(JSONStringify(message))>>]
    ELSE [ret |-> "true", frames |-> <<>>]

\* The streaming WebSocketManager.sendMessage(message): send() on an open
\* socket does not throw, so the catch block does not run.
WMSendMessageResult(ws, message) ==
    IF ws # "null" /\ ws = "open"
    THEN [ret |-> "true", frames |-> <<TextFrame(JSONStringify(message))>>]
    ELSE [ret |-> "false", frames |-> <<>>]

\* A caller gives message to WebSocketClient.sendMessage.
WCSendMessageWith(message) ==
    /\ wcVariant # "none"
    /\ Len(wcFrames) < MaxFrames
    /\ LET r == WCSendMessageResult(wcWs, message)
       IN /\ wcFrames' = wcFrames \o r.frames
          /\ wcSendRet' = r.ret
    /\ UNCHANGED <<wmFrames, wmSendRet, rxVars>>
    /\ UNCHANGED ioOthers

WCSendMessage == \E message \in OutMessages : WCSendMessageWith(message)

\* A caller gives message to the streaming WebSocketManager.sendMessage.
WMSendMessageWith(message) ==
    /\ wmCreated > 0
    /\ Len(wmFrames) < MaxFrames
    /\ LET r == WMSendMessageResult(wmWs, message)
       IN /\ wmFrames' = wmFrames \o r.frames
          /\ wmSendRet' = r.ret
    /\ UNCHANGED <<wcFrames, wcSendRet, rxVars>>
    /\ UNCHANGED ioOthers

WMSendMessage == \E message \in OutMessages : WMSendMessageWith(message)

\* The two transports with the messages given to them: sockets connecting,
\* opening and closing, disconnect(), and sendMessage at any moment.
NextSend ==
    \/ WCInitialConnect
    \/ WCSocketOpens
    \/ WCSocketCloses
    \/ WCDisconnect
    \/ WCSendMessage
    \/ WMInitialConnect
    \/ WMSocketOpens
    \/ WMSocketCloses
    \/ WMDisconnect
    \/ WMSendMessage

\* ===================================================================
\* onMessage / handleMessage of WebSocketClient and of the ElevenLabs
\* WebSocketManager
\* ===================================================================
\* The message types handlers are registered for, and one no handler is
\* ever registered for.
HandledTypes == {"message", "error"}

InTypes == HandledTypes \cup {"frobnicate"}

\* The handler functions given to onMessage.
HandlerIds == {1, 2}

\* The frames a server sends: the text of a message of each type, and a
\* text that is not JSON.
InFrames ==
    {JSONStringify([type |-> t, content |-> <<"x">>]) : t \in InTypes}
        \cup {<<"not", "json">>}

\* messageHandlers.set(type, handler) on a map that keeps the first handler
\* of a type.
SetHandlerOnce(handlers, type, handler) ==
    [t \in DOMAIN handlers \cup {type} |->
        IF t \in DOMAIN handlers THEN handlers[t] ELSE handler]

\* messageHandlers.set(type, handler).
SetHandler(handlers, type, handler) ==
    [t \in DOMAIN handlers \cup {type} |-> IF t = type THEN handler ELSE handlers[t]]

\* handleMessage(data): the handlers it invokes, in order.
HandleMessage(handlers, data) ==
    IF data.type \in DOMAIN handlers THEN <<handlers[data.type]>> ELSE <<>>

\* ws.onmessage of WebSocketClient: JSON.parse and handleMessage in a try
\* block whose catch logs the error.
WCOnSocketMessage(handlers, data) ==
    LET p == JSONParse(data)
    IN [data |-> data,
        invoked |-> IF p.ok THEN HandleMessage(handlers, p.value) ELSE <<>>,
        threw |-> FALSE]

\* ws.onmessage that gives a frame it cannot parse to the handler of the
\* 'error' messages.
ELOnSocketMessageReporting(handlers, data) ==
    LET p == JSONParse(data)
    IN [data |-> data,
        invoked |-> IF p.ok THEN HandleMessage(handlers, p.value)
                    ELSE HandleMessage(handlers, [type |-> "error", content |-> data]),
        threw |-> FALSE]

\* ws.onmessage of the ElevenLabs WebSocketManager: JSON.parse and
\* handleMessage with no try block, the SyntaxError of JSON.parse leaves the
\* event handler.
ELOnSocketMessage(handlers, data) ==
    LET p == JSONParse(data)
    IN [data |-> data,
        invoked |-> IF p.ok THEN HandleMessage(handlers, p.value) ELSE <<>>,
        threw |-> ~p.ok]

\* WebSocketClient.onMessage(type, handler).
WCOnMessageWith(type, handler) ==
    /\ Len(wcRegs) < MaxRegistrations
    /\ wcHandlers' = SetHandler(wcHandlers, type, handler)
    /\ wcRegs' = Append(wcRegs, [type |-> type, handler |-> handler])
    /\ UNCHANGED <<wcRx, elHandlers, elRegs, elRx, wmRx, elBadSeen, wmBadSeen, sendVars>>
    /\ UNCHANGED ioOthers

WCOnMessage == \E type \in HandledTypes, handler \in HandlerIds : WCOnMessageWith(type, handler)

\* ws.onmessage of a socket of the client that is open, the current one or
\* an abandoned one.
WCSocketMessageWith(data) ==
    /\ wcWs = "open" \/ wcAbandoned.open > 0
    /\ wcRx' = WCOnSocketMessage(wcHandlers, data)
    /\ UNCHANGED <<wcHandlers, wcRegs, elHandlers, elRegs, elRx, wmRx, elBadSeen,
                   wmBadSeen, sendVars>>
    /\ UNCHANGED ioOthers

WCSocketMessage == \E data \in InFrames : WCSocketMessageWith(data)

\* WebSocketManager.onMessage(type, handler) of the ElevenLabs front end.
ELOnMessageWith(type, handler) ==
    /\ Len(elRegs) < MaxRegistrations
    /\ elHandlers' = SetHandler(elHandlers, type, handler)
    /\ elRegs' = Append(elRegs, [type |-> type, handler |-> handler])
    /\ UNCHANGED <<elRx, wcHandlers, wcRegs, wcRx, wmRx, elBadSeen, wmBadSeen, sendVars>>
    /\ UNCHANGED ioOthers

ELOnMessage == \E type \in HandledTypes, handler \in HandlerIds : ELOnMessageWith(type, handler)

\* ws.onmessage of the open socket of that manager.
ELSocketMessageWith(data) ==
    /\ elWs = "open"
    /\ elRx' = ELOnSocketMessage(elHandlers, data)
    /\ elBadSeen' = (elBadSeen \/ ~JSONParse(data).ok)
    /\ UNCHANGED <<elHandlers, elRegs, wcHandlers, wcRegs, wcRx, wmRx, wmBadSeen, sendVars>>
    /\ UNCHANGED ioOthers

ELSocketMessage == \E data \in InFrames : ELSocketMessageWith(data)

\* The two transports that dispatch by message type, with the handlers
\* registered on them and the frames their open sockets receive.
NextDispatch ==
    \/ WCInitialConnect
    \/ WCSocketOpens
    \/ WCOnMessage
    \/ WCSocketMessage
    \/ ELInitialConnect
    \/ ELSocketOpens
    \/ ELOnMessage
    \/ ELSocketMessage

\* ===================================================================
\* ws.onmessage of the streaming WebSocketManager, with
\* VoiceCall.handleWebSocketMessage as callbacks.onMessage
\* ===================================================================
\* The case labels of the switch in handleWebSocketMessage.
SwitchCases ==
    {"ai_typing", "ai_response_start", "ai_chunk", "ai_response_complete",
     "audio_chunk", "ai_response", "audio_response", "system", "error"}

\* The frames the server of the streaming front end sends: the text of a
\* text message, of an audio message, of a message of a type the switch has
\* no case for, and a text that is not JSON.
VCInFrames ==
    {JSONStringify([type |-> "system", content |-> <<"A">>]),
     JSONStringify([type |-> "audio_chunk", content |-> <<"ok">>]),
     JSONStringify([type |-> "frobnicate", content |-> <<"x">>]),
     <<"not", "json">>}

\* What base64ToBlob and the Audio element make of message.content.
FragKindOf(content) ==
    IF content = <<>> THEN "empty"
    ELSE IF content = <<"ok">> THEN "ok"
    ELSE "bad"

\* ws.onmessage of the open socket for a frame with the given data:
\* JSON.parse, then handleWebSocketMessage, in a try block whose catch logs
\* the error.
WMSocketMessageWith(data) ==
    /\ vcWs = "open"
    /\ LET p == JSONParse(data)
           f == [id |-> amNextFrag + 1, kind |-> FragKindOf(p.value.content),
                 via |-> p.value.type]
           r == PlayAudioSync(f, amAudio, amCurrentAudio, amIsPlaying)
       IN /\ wmRx' = [data |-> data, delivered |-> p.ok, threw |-> FALSE]
          /\ wmBadSeen' = (wmBadSeen \/ ~p.ok)
          /\ IF p.ok /\ p.value.type \in {"audio_chunk", "audio_response"}
             THEN /\ amNextFrag < MaxFragments
                  /\ amNextFrag' = amNextFrag + 1
                  /\ amAudio' = r.audio
                  /\ amCurrentAudio' = r.cur
                  /\ amIsPlaying' = r.isPlaying
                  /\ amUrls' = amUrls \cup CreatedUrls(amAudio, r.audio)
                  /\ UNCHANGED <<amQueue, amFailed, uiVars>>
             ELSE IF p.ok
             THEN /\ Len(uiChat) < MaxChat
                  /\ SetUI(UIMessage(p.value.type, p.value.content))
                  /\ UNCHANGED amVars
             ELSE UNCHANGED <<uiVars, amVars>>
    /\ vcEvent' = [op |-> "other"]
    /\ UNCHANGED srVars
    /\ UNCHANGED <<vcIsOnCall, vcIsConnected, vcWs, vcClosePending, vcReconnectTimer,
                   vcRestartTimers, vcStatusTimers, vcSent>>
    /\ UNCHANGED <<sendVars, wcHandlers, wcRegs, wcRx, elHandlers, elRegs, elRx, elBadSeen>>
    /\ UNCHANGED <<apVars, wcVars, wmVars, elVars, vchVars, smVars, vaVars, vchCallVars>>

WMSocketMessage == \E data \in VCInFrames : WMSocketMessageWith(data)

\* The inbound side of WebSocketClient and of the streaming VoiceCall: the
\* handlers registered on the client, the frames both receive, and the
\* user starting a call.
NextInbound ==
    \/ WCInitialConnect
    \/ WCSocketOpens
    \/ WCOnMessage
    \/ WCSocketMessage
    \/ VCInitialize
    \/ VCSocketOpens
    \/ StartCall
    \/ WMSocketMessage

\* The inbound side of the two WebSocketManagers: the handlers registered
\* on the ElevenLabs one, the frames both receive, and the user starting a
\* call in the streaming front end.
NextFrames ==
    \/ ELInitialConnect
    \/ ELSocketOpens
    \/ ELOnMessage
    \/ ELSocketMessage
    \/ VCInitialize
    \/ VCSocketOpens
    \/ StartCall
    \/ WMSocketMessage

\* The streaming VoiceCall with the fragments it plays during calls: the
\* user's clicks, the recognition results, the audio messages and the
\* callbacks of the Audio objects.
NextCallAudio ==
    \/ VCInitialize
    \/ VCSocketOpens
    \/ StartCall
    \/ EndCall
    \/ SROnStart
    \/ SROnResult
    \/ VCAudioChunk
    \/ VCAudioResponse
    \/ AudioEnded
    \/ AudioError
    \/ PlayPromiseResolves
    \/ PlayPromiseRejects

\* ===================================================================
\* VoiceAgent (voice-agent.js) with its SpeechRecognitionManager
\* ===================================================================
\* The messages the server sends to the VoiceAgent, after JSON.parse: the
\* types setupWebSocketHandlers registers a handler for, and one it does not.
VAHandledTypes ==
    {"processing", "ai_response", "audio_chunk", "audio_response",
     "latency_measurement", "error", "pong"}

VAInMessages ==
    {[type |-> t, is_final |-> FALSE] : t \in VAHandledTypes \cup {"frobnicate"}}
        \cup {[type |-> "audio_response", is_final |-> TRUE]}

\* The message types whose handler assigns false to isProcessing.
VAClearingTypes == {"audio_response", "error"}

VAInit ==
    /\ vaIsProcessing = FALSE
    /\ vaSrIsListening = FALSE
    /\ vaSrEngine = "idle"
    /\ vaSrStarts = 0
    /\ vaSent = 0
    /\ vaEvent = [op |-> "none", started |-> FALSE]

\* A variant of the condition of startListening() that looks at the
\* recognition alone.
VAMayStartIgnoringProcessing(listening, processing) == ~listening

\* The condition of startListening():
\* !this.speechRecognition.getListeningState() && !this.isProcessing.
VAMayStart(listening, processing) == ~listening /\ ~processing

\* SpeechRecognitionManager.stop(): recognition.stop() is called, and
\* isListening cleared, when isListening is set.
VASrStopEngine(engine) ==
    IF vaSrIsListening /\ engine \in {"starting", "running"} THEN "stopping" ELSE engine

\* ws.onmessage of the WebSocketManager with the handlers of
\* setupWebSocketHandlers: the handler of message.type runs, and a type with
\* no handler is logged. The legacy playAudioResponse plays on the page's
\* <audio> element, which is not part of the chunk queue.
VASocketMessageWith(message) ==
    /\ elWs = "open"
    /\ CASE message.type = "processing" ->
              /\ vaIsProcessing' = TRUE
              /\ InitializeStreamingAudioBody
         [] message.type = "audio_chunk" ->
              /\ PlayAudioChunkBody
              /\ UNCHANGED vaIsProcessing
         [] message.type = "audio_response" /\ message.is_final ->
              /\ FinalizeStreamingAudioBody
              /\ vaIsProcessing' = FALSE
         [] message.type = "audio_response" /\ ~message.is_final ->
              /\ vaIsProcessing' = FALSE
              /\ UNCHANGED apVars
         [] message.type = "error" ->
              /\ vaIsProcessing' = FALSE
              /\ UNCHANGED apVars
         [] OTHER ->
              UNCHANGED <<vaIsProcessing, apVars>>
    /\ vaEvent' = [op |-> "other", started |-> FALSE]
    /\ UNCHANGED <<vaSrIsListening, vaSrEngine, vaSrStarts, vaSent>>
    /\ UNCHANGED elVars
    /\ UNCHANGED vaOthers

VASocketMessage == \E message \in VAInMessages : VASocketMessageWith(message)

\* startListening(): speechRecognition.start() calls recognition.start()
\* when isListening is not set; the browser starts an idle recognition and
\* throws InvalidStateError for one that is already started.
VAStartListening ==
    /\ IF VAMayStart(vaSrIsListening, vaIsProcessing)
       THEN /\ vaSrStarts < MaxStarts
            /\ vaSrStarts' = vaSrStarts + 1
            /\ vaSrEngine' = IF vaSrEngine = "idle" THEN "starting" ELSE vaSrEngine
            /\ vaEvent' = [op |-> "startListening", started |-> TRUE]
       ELSE /\ UNCHANGED <<vaSrStarts, vaSrEngine>>
            /\ vaEvent' = [op |-> "startListening", started |-> FALSE]
    /\ UNCHANGED <<vaIsProcessing, vaSrIsListening, vaSent>>
    /\ UNCHANGED <<apVars, elVars>>
    /\ UNCHANGED vaOthers

\* stopListening(): speechRecognition.stop().
VAStopListening ==
    /\ vaSrEngine' = VASrStopEngine(vaSrEngine)
    /\ vaSrIsListening' = FALSE
    /\ vaEvent' = [op |-> "other", started |-> FALSE]
    /\ UNCHANGED <<vaIsProcessing, vaSrStarts, vaSent>>
    /\ UNCHANGED <<apVars, elVars>>
    /\ UNCHANGED vaOthers

\* recognition.onstart: isListening is set and the onStart callbacks run.
VARecognitionOnStart ==
    /\ vaSrEngine = "starting"
    /\ vaSrEngine' = "running"
    /\ vaSrIsListening' = TRUE
    /\ vaEvent' = [op |-> "other", started |-> FALSE]
    /\ UNCHANGED <<vaIsProcessing, vaSrStarts, vaSent>>
    /\ UNCHANGED <<apVars, elVars>>
    /\ UNCHANGED vaOthers

\* recognition.onresult: a final transcript is given to sendMessage, which
\* sends it as user_speech when the socket is open.
VARecognitionOnResult ==
    \E final \in BOOLEAN :
        /\ vaSrEngine = "running"
        /\ IF final /\ elWs = "open"
           THEN /\ vaSent < MaxSent
                /\ vaSent' = vaSent + 1
           ELSE UNCHANGED vaSent
        /\ vaEvent' = [op |-> "other", started |-> FALSE]
        /\ UNCHANGED <<vaIsProcessing, vaSrIsListening, vaSrEngine, vaSrStarts>>
        /\ UNCHANGED <<apVars, elVars>>
        /\ UNCHANGED vaOthers

\* recognition.onerror: the onError callback calls stopListening(), then
\* stop() is called again; the browser ends the recognition afterwards.
VARecognitionOnError ==
    /\ vaSrEngine \in {"starting", "running"}
    /\ vaSrEngine' = "stopping"
    /\ vaSrIsListening' = FALSE
    /\ vaEvent' = [op |-> "other", started |-> FALSE]
    /\ UNCHANGED <<vaIsProcessing, vaSrStarts, vaSent>>
    /\ UNCHANGED <<apVars, elVars>>
    /\ UNCHANGED vaOthers

\* recognition.onend: stop().
VARecognitionOnEnd ==
    /\ vaSrEngine \in {"running", "stopping"}
    /\ vaSrEngine' = "idle"
    /\ vaSrIsListening' = FALSE
    /\ vaEvent' = [op |-> "other", started |-> FALSE]
    /\ UNCHANGED <<vaIsProcessing, vaSrStarts, vaSent>>
    /\ UNCHANGED <<apVars, elVars>>
    /\ UNCHANGED vaOthers

\* ===================================================================
\* voice-chat VoiceCall: the call, the chat area and sendTranscription
\* ===================================================================
vchCallOthers == <<apVars, amVars, wcVars, wmVars, elVars, callVars, smVars, ioVars,
                   vaVars>>

VChCallInit ==
    /\ vchIsOnCall = FALSE
    /\ vchSupported = "unknown"
    /\ vchEngine = "none"
    /\ vchRestartTimers = 0
    /\ vchChat = <<>>
    /\ vchHistory = <<>>
    /\ vchSent = <<>>
    /\ vchEvent = [op |-> "other", text |-> <<>>, transmitted |-> FALSE]

\* The last operation was neither of them.
VChOther == [op |-> "other", text |-> <<>>, transmitted |-> FALSE]

\* addSystemMessage(content): a node in the chat area, nothing in
\* conversationHistory.
VChAddSystemMessage(chat, content) ==
    Append(chat, [cls |-> "system", text |-> content])

\* addCallMessage(content, sender): a node in the chat area and an entry of
\* conversationHistory.
VChAddCallMessage(c, content, sender) ==
    [chat |-> Append(c.chat, [cls |-> sender, text |-> content]),
     history |-> Append(c.history, [content |-> content, sender |-> sender])]

\* sendWebSocketMessage(message): the message is given to ws.send when the
\* socket is open; otherwise an error entry is added and the call returns.
VChSendWebSocketMessage(c, sent, ws, message) ==
    IF ws # "null" /\ ws = "open"
    THEN [c |-> c, sent |-> Append(sent, message), transmitted |-> TRUE]
    ELSE [c |-> VChAddCallMessage(c, <<"Not connected to server">>, "error"),
          sent |-> sent, transmitted |-> FALSE]

\* sendTranscription(text): sendWebSocketMessage does not throw, so the user
\* entry is added after it whatever it did, and the catch block does not run.
VChSendTranscription(c, sent, text, isConnected, ws) ==
    IF ~isConnected \/ Trim(text) = <<>>
    THEN [c |-> c, sent |-> sent, transmitted |-> FALSE]
    ELSE LET r == VChSendWebSocketMessage(c, sent, ws,
                      [type |-> "user_speech", content |-> Trim(text)])
         IN [c |-> VChAddCallMessage(r.c, Labelled("You: ", Trim(text)), "user"),
             sent |-> r.sent, transmitted |-> r.transmitted]

\* The page constructs the VoiceCall: connectWebSocket().
VChPageLoads ==
    /\ VChInitialConnectBody
    /\ vchSupported' \in {"true", "false"}
    /\ UNCHANGED <<vchIsOnCall, vchEngine, vchRestartTimers, vchChat, vchHistory,
                   vchSent, vchEvent>>
    /\ UNCHANGED vchCallOthers

\* ws.onopen, with the entry it adds to the chat area.
VChCallSocketOpens ==
    /\ VChSocketOpensBody
    /\ Len(vchChat) < MaxChat
    /\ vchChat' = VChAddSystemMessage(vchChat, <<"Connected to streaming voice chat">>)
    /\ vchEvent' = VChOther
    /\ UNCHANGED <<vchIsOnCall, vchSupported, vchEngine, vchRestartTimers, vchHistory,
                   vchSent>>
    /\ UNCHANGED vchCallOthers

\* The connection starts to close: readyState is no longer OPEN, and the
\* close event has not been dispatched yet.
VChCallSocketStartsClosing ==
    /\ vchWs = "open"
    /\ vchWs' = "closing"
    /\ vchEvent' = VChOther
    /\ UNCHANGED <<vchTimers, vchIsConnected, vchAttempts>>
    /\ UNCHANGED <<vchIsOnCall, vchSupported, vchEngine, vchRestartTimers, vchChat,
                   vchHistory, vchSent>>
    /\ UNCHANGED vchCallOthers

\* ws.onclose, with the entry it adds to the chat area; isOnCall is not
\* looked at.
VChCallSocketCloses ==
    /\ VChSocketClosesBody
    /\ Len(vchChat) < MaxChat
    /\ vchChat' = VChAddSystemMessage(vchChat, <<"Disconnected from server">>)
    /\ vchEvent' = VChOther
    /\ UNCHANGED <<vchIsOnCall, vchSupported, vchEngine, vchRestartTimers, vchHistory,
                   vchSent>>
    /\ UNCHANGED vchCallOthers

\* The reconnect timer fires.
VChCallTimerFires ==
    /\ VChTimerFiresBody
    /\ vchEvent' = VChOther
    /\ UNCHANGED <<vchIsOnCall, vchSupported, vchEngine, vchRestartTimers, vchChat,
                   vchHistory, vchSent>>
    /\ UNCHANGED vchCallOthers

\* startCall(): a new recognition is created and started, the chat area is
\* cleared and the "Call started" entry added.
VChStartCall ==
    /\ vchSupported # "unknown"
    /\ IF ~vchIsConnected \/ vchIsOnCall \/ vchSupported # "true"
       THEN UNCHANGED <<vchIsOnCall, vchEngine, vchChat, vchHistory>>
       ELSE LET c == VChAddCallMessage([chat |-> <<>>, history |-> <<>>],
                                       <<"Call started with AI">>, "system")
            IN /\ vchIsOnCall' = TRUE
               /\ vchEngine' = "running"
               /\ vchChat' = c.chat
               /\ vchHistory' = c.history
    /\ vchEvent' = VChOther
    /\ UNCHANGED <<vchSupported, vchRestartTimers, vchSent>>
    /\ UNCHANGED vchVars
    /\ UNCHANGED vchCallOthers

\* endCall().
VChEndCall ==
    /\ vchSupported # "unknown"
    /\ IF ~vchIsOnCall
       THEN UNCHANGED <<vchIsOnCall, vchEngine, vchChat, vchHistory>>
       ELSE LET c == VChAddCallMessage([chat |-> vchChat, history |-> vchHistory],
                                       <<"Call ended">>, "system")
            IN /\ Len(vchChat) < MaxChat
               /\ vchIsOnCall' = FALSE
               /\ vchEngine' = IF vchEngine = "running" THEN "stopping" ELSE vchEngine
               /\ vchChat' = c.chat
               /\ vchHistory' = c.history
    /\ vchEvent' = VChOther
    /\ UNCHANGED <<vchSupported, vchRestartTimers, vchSent>>
    /\ UNCHANGED vchVars
    /\ UNCHANGED vchCallOthers

\* recognition.onresult for an event that carries one final result:
\* sendTranscription(transcript.trim()).
VChOnFinalResult ==
    \E transcript \in Transcripts :
        /\ vchEngine \in {"running", "stopping"}
        /\ Len(vchChat) + 1 < MaxChat
        /\ Len(vchSent) < MaxSent
        /\ LET r == VChSendTranscription([chat |-> vchChat, history |-> vchHistory],
                                         vchSent, Trim(transcript), vchIsConnected, vchWs)
           IN /\ vchChat' = r.c.chat
              /\ vchHistory' = r.c.history
              /\ vchSent' = r.sent
              /\ vchEvent' = [op |-> "sendTranscription", text |-> Trim(transcript),
                              transmitted |-> r.transmitted]
        /\ UNCHANGED <<vchIsOnCall, vchSupported, vchEngine, vchRestartTimers>>
        /\ UNCHANGED vchVars
        /\ UNCHANGED vchCallOthers

\* recognition.onend: a restart in 100 ms while the call is active.
VChOnEnd ==
    /\ vchEngine \in {"running", "stopping"}
    /\ vchEngine' = "idle"
    /\ IF vchIsOnCall
       THEN /\ vchRestartTimers < MaxRestartTimers
            /\ vchRestartTimers' = vchRestartTimers + 1
       ELSE UNCHANGED vchRestartTimers
    /\ vchEvent' = VChOther
    /\ UNCHANGED <<vchIsOnCall, vchSupported, vchChat, vchHistory, vchSent>>
    /\ UNCHANGED vchVars
    /\ UNCHANGED vchCallOthers

\* The 100 ms timer of recognition.onend fires: recognition.start() while
\* the call is active, which throws when the recognition is already started.
VChRestartTimerFires ==
    /\ vchRestartTimers > 0
    /\ vchRestartTimers' = vchRestartTimers - 1
    /\ vchEngine' = IF vchIsOnCall /\ vchEngine = "idle" THEN "running" ELSE vchEngine
    /\ vchEvent' = IF vchIsOnCall
                   THEN [op |-> "restart", text |-> <<>>, transmitted |-> FALSE]
                   ELSE VChOther
    /\ UNCHANGED <<vchIsOnCall, vchSupported, vchChat, vchHistory, vchSent>>
    /\ UNCHANGED vchVars
    /\ UNCHANGED vchCallOthers

\* The voice-chat VoiceCall: the transport's events, the call button, and
\* the recognition's events.
NextVChCall ==
    \/ VChPageLoads
    \/ VChCallSocketOpens
    \/ VChCallSocketStartsClosing
    \/ VChCallSocketCloses
    \/ VChCallTimerFires
    \/ VChStartCall
    \/ VChEndCall
    \/ VChOnFinalResult
    \/ VChOnEnd
    \/ VChRestartTimerFires

Init ==
    /\ APInit
    /\ AMInit
    /\ WCInit
    /\ WMInit
    /\ ELInit
    /\ VChInit
    /\ UIInit
    /\ SRInit
    /\ VCInit
    /\ SMInit
    /\ IOInit
    /\ VAInit
    /\ VChCallInit

SpecAP == Init /\ [][NextAP]_vars
SpecAM == Init /\ [][NextAM]_vars
SpecVCAudio == Init /\ [][NextVCAudio]_vars
SpecWC == Init /\ [][NextWC]_vars
SpecWM == Init /\ [][NextWM]_vars
SpecEL == Init /\ [][NextEL]_vars
SpecCall == Init /\ [][NextCall]_vars
SpecTranscribe == Init /\ [][NextTranscribe]_vars
SpecUI == Init /\ [][NextUI]_vars
SpecSM == Init /\ [][NextSM]_vars
SpecCallAudio == Init /\ [][NextCallAudio]_vars
SpecSend == Init /\ [][NextSend]_vars
SpecDispatch == Init /\ [][NextDispatch]_vars
SpecInbound == Init /\ [][NextInbound]_vars
SpecFrames == Init /\ [][NextFrames]_vars

\* ===================================================================
\* Claims
\* ===================================================================

\* C1: in AudioPlayer at most one chunk audio is playing at any instant; a
\* chunk that arrives while another chunk is playing stays pending.
C1_AtMostOneChunkPlaying == Cardinality(apPlaying) <= 1

\* C2: in the streaming VoiceCall the arrival of an audio_chunk never stops
\* the fragment that is playing: every Audio that plays before the handler
\* of an audio_chunk message runs still plays after it.
C2_ChunkArrivalKeepsPlaying ==
    [][(\E b \in DOMAIN amAudio' \ DOMAIN amAudio : amAudio'[b].via = "audio_chunk")
         => \A a \in AMPlaying : a \in DOMAIN amAudio' /\ amAudio'[a].st = "playing"]_vars

\* C4: in AudioManager a failed fragment taken from the queue does not stall
\* the queue: once such a fragment has failed, whenever no Audio plays and no
\* callback is pending, no fragment is left waiting in the queue.
C4_FailedFragmentDoesNotStall ==
    (amFailed # {} /\ AMIdle) => amQueue = <<>>

\* C5: in WebSocketClient, counting the closures since the last successful
\* open (or since construction), the n-th closure schedules a reconnect with
\* delay n x 2000 ms for n = 1..5, so 5 closures schedule exactly the delays
\* 2000, 4000, 6000, 8000, 10000; 'failed' is notified exactly when a further
\* closure follows, and no 6th reconnect is scheduled.
C5_FiveAttemptsThenFailed ==
    /\ Len(wcDelays) = (IF wcCloses < MaxReconnectAttempts
                        THEN wcCloses ELSE MaxReconnectAttempts)
    /\ \A k \in 1..Len(wcDelays) : wcDelays[k] = k * ClientBaseDelay
    /\ wcFailed <=> wcCloses > MaxReconnectAttempts

\* C5 witness: five reconnects were scheduled, the socket of the fifth one
\* closed too, 'failed' is the state notified and nothing is pending.
C5_Witness ==
    /\ wcDelays = <<2000, 4000, 6000, 8000, 10000>>
    /\ wcCloses = 6
    /\ wcState = "failed"
    /\ WCTimers = 0
    /\ WCLiveSockets = 0

\* C6: in every transport variant (streaming WebSocketManager, ElevenLabs
\* WebSocketManager, voice-chat VoiceCall.connectWebSocket) the number of
\* reconnect attempts made since the last successful open never exceeds 5.
C6_AtMostFiveReconnects ==
    /\ wmReconnectAttempts <= 5
    /\ elAttempts <= 5
    /\ vchAttempts <= 5

\* C7: in WebSocketClient the close event of a socket that disconnect()
\* closed schedules no reconnect and emits no 'reconnecting' notification.
C7_NoReconnectAfterDisconnect ==
    [][wcAbandoned'.closing < wcAbandoned.closing
         => (WCTimers' <= WCTimers /\ wcState' # "reconnecting")]_vars

\* C8: in the streaming front end, once WebSocketManager.disconnect() has run
\* (VoiceCall.destroy()), connect() is never invoked again: no WebSocket is
\* created afterwards, also not by a timer that was pending at that moment.
C8_NoConnectAfterDisconnect ==
    [][wmDisconnected => wmCreated' = wmCreated]_vars

\* C9: once WebSocketClient has notified 'failed', it never creates a new
\* socket and never notifies 'connected' again; stated for the case where the
\* attempts are exhausted and no socket and no timer is left pending.
C9_FailedIsTerminal ==
    [][(wcFailed /\ WCTimers = 0 /\ WCLiveSockets = 0 /\ wcAbandoned.closing = 0)
         => (wcCreated' = wcCreated /\ wcState' # "connected")]_vars

\* C10: in the streaming WebSocketManager the k-th consecutive reconnect
\* attempt after an abnormal close is scheduled after k x reconnectDelay.
C10_DelayGrowsLinearly ==
    \A k \in 1..Len(wmDelays) : wmDelays[k] = k * ManagerReconnectDelay

\* C3: in AudioPlayer, during one streaming response the order in which chunk
\* playback starts equals the order of the playAudioChunk calls: the start
\* log is a prefix of the call log, whatever the timing of the ended and
\* error callbacks and of the 10 ms timer.
C3_StartOrderIsCallOrder == IsPrefix(apStarted, apCalls)

\* C3 witness: three chunks have started in one response while the 10 ms
\* timer of an ended chunk is pending.
C3_Witness == Len(apStarted) = 3 /\ apTimers > 0

\* The chat area after a step holds the nodes it held before, unchanged,
\* except that the node numbered n has the given text and is not marked as
\* the current response.
FrozenAs(n, text) ==
    /\ Len(uiChat') = Len(uiChat)
    /\ \A i \in DOMAIN uiChat :
         uiChat'[i] = IF uiChat[i].nid = n
                      THEN [uiChat[i] EXCEPT !.text = text, !.cur = FALSE, !.id = ""]
                      ELSE uiChat[i]

\* A streamed response adds one node to the chat area, at ai_response_start;
\* the ai_chunk and ai_response_complete that follow add none, and nothing is
\* pushed on conversationHistory.
StreamAddsOneNode ==
    /\ VCAiResponseStart =>
          /\ Len(uiChat') = Len(uiChat) + 1
          /\ uiChat'[Len(uiChat')].nid = uiCurrentAiMessage'
          /\ uiChat'[Len(uiChat')].cur
          /\ uiHistory' = uiHistory
    /\ (VCAiChunk /\ uiCurrentAiMessage # 0) =>
          /\ Len(uiChat') = Len(uiChat)
          /\ uiCurrentAiMessage' = uiCurrentAiMessage
          /\ uiHistory' = uiHistory

\* C11 (as stated): startAiResponse, any number of updateAiResponse calls and
\* finishAiResponse(t) add exactly one entry, whose final content is t and
\* which is no longer marked as the current response.
C11_StreamedEntryContentIsFinalText ==
    [][/\ StreamAddsOneNode
       /\ \A t \in AiTexts :
            (VCMessageWith("ai_response_complete", t) /\ uiCurrentAiMessage # 0) =>
                /\ FrozenAs(uiCurrentAiMessage, t)
                /\ uiCurrentAiMessage' = 0
                /\ uiHistory' = uiHistory]_vars

\* C11 (amended): startAiResponse, any number of updateAiResponse calls and
\* finishAiResponse(t) add exactly one node to the chat area and nothing to
\* conversationHistory; the node's final content is "AI: " followed by t,
\* and it is no longer marked as the current response.
C11_StreamedEntryIsOneLabelledNode ==
    [][/\ StreamAddsOneNode
       /\ \A t \in AiTexts :
            (VCMessageWith("ai_response_complete", t) /\ uiCurrentAiMessage # 0) =>
                /\ FrozenAs(uiCurrentAiMessage, Labelled("AI: ", t))
                /\ uiCurrentAiMessage' = 0
                /\ uiHistory' = uiHistory]_vars

\* C11 witness: a response streamed in two chunks has been completed; its
\* node is the only assistant node and conversationHistory has no assistant
\* entry.
C11_Witness ==
    /\ uiCurrentAiMessage = 0
    /\ \E i \in DOMAIN uiChat :
         /\ uiChat[i].text = <<"AI: ", "A", "B">>
         /\ ~uiChat[i].cur
         /\ \A j \in DOMAIN uiChat : uiChat[j].cls = "ai" => j = i
    /\ \A k \in DOMAIN uiHistory : uiHistory[k].sender # "ai"

\* C12: at every point at most one assistant node of the chat area is marked
\* as the current response: a new ai_response_start supersedes or removes a
\* streamed entry that was not completed.
C12_AtMostOneCurrentResponse == Cardinality(CurrentResponseNodes) <= 1

\* A step appends a user entry to the conversation.
UserEntryAppended ==
    /\ Len(uiHistory') = Len(uiHistory) + 1
    /\ SubSeq(uiHistory', 1, Len(uiHistory)) = uiHistory
    /\ uiHistory'[Len(uiHistory')].sender = "user"

\* C13: at most one live-transcription entry exists at any time, and when a
\* finalized utterance is appended to the conversation as a user entry no
\* live-transcription entry exists, for every sequence of interim results,
\* final results, recognition ends and call starts and ends.
C13_OneLiveEntryClearedBeforeLogging ==
    [][/\ Cardinality(LiveNodes') <= 1
       /\ UserEntryAppended => (LiveNodes' = {} /\ uiLive' = 0)]_vars

\* C13 witness: a live transcription was on display when a final result
\* arrived; the utterance is the last node of the chat area and no
\* live-transcription node is left.
C13_Witness ==
    /\ uiChat # <<>>
    /\ uiChat[Len(uiChat)].cls = "user"
    /\ LiveNodes = {}
    /\ uiCallStatus = "Waiting for AI response..."
    /\ vcIsOnCall

\* The final results of a result event, in order.
RECURSIVE FinalsOf(_)
FinalsOf(results) ==
    IF results = <<>> THEN <<>>
    ELSE (IF Head(results).isFinal THEN <<Head(results).transcript>> ELSE <<>>)
         \o FinalsOf(Tail(results))

\* The final transcripts of a result event joined by single spaces, trimmed.
RECURSIVE JoinWithBlanks(_)
JoinWithBlanks(texts) ==
    IF texts = <<>> THEN <<>>
    ELSE IF Len(texts) = 1 THEN texts[1]
    ELSE texts[1] \o <<Blank>> \o JoinWithBlanks(Tail(texts))

SpokenText(results) == TrimLeft(TrimRight(JoinWithBlanks(FinalsOf(results))))

UserSpeech(text) == [type |-> "user_speech", content |-> text]

\* A result event is delivered during a call while the socket is open.
ResultDuringCall(results) ==
    /\ SROnResultWith(results)
    /\ vcIsOnCall
    /\ vcIsConnected
    /\ vcWs = "open"

\* C14 (as stated): during a call while the transport is connected, interim
\* results never cause an outbound message, and each finalized result causes
\* exactly one outbound user_speech message whose content is the trimmed
\* final text.
C14_OneMessagePerFinalResult ==
    [][\A results \in ResultLists :
         ResultDuringCall(results) =>
             LET finals == FinalsOf(results)
             IN /\ Len(vcSent') = Len(vcSent) + Len(finals)
                /\ SubSeq(vcSent', 1, Len(vcSent)) = vcSent
                /\ \A k \in 1..Len(finals) :
                     vcSent'[Len(vcSent) + k] = UserSpeech(TrimLeft(TrimRight(finals[k])))]_vars

\* C14 (amended): during a call while the transport is connected, a result
\* event with no final result, or whose final transcripts are blank, causes
\* no outbound message; every other result event causes exactly one outbound
\* user_speech message, whose content is the event's final transcripts joined
\* by spaces and trimmed.
C14_OneMessagePerResultEvent ==
    [][\A results \in ResultLists :
         ResultDuringCall(results) =>
             IF SpokenText(results) = <<>>
             THEN vcSent' = vcSent
             ELSE vcSent' = Append(vcSent, UserSpeech(SpokenText(results)))]_vars

\* C14 witness: during a call one user_speech message has gone out, with the
\* trimmed text of a final result that came padded with spaces.
C14_Witness ==
    /\ vcIsOnCall
    /\ vcSent = <<UserSpeech(<<"hello">>)>>
    /\ \E i \in DOMAIN uiHistory : uiHistory[i] = [content |-> <<"You: ", "hello">>, sender |-> "user"]

\* C15: in SpeechManager the accumulated transcript is empty right after
\* start(), changes during the session only by the text of final results
\* being appended, and is empty again once stop() has delivered it to the
\* onEnd subscribers.
C15_TranscriptClearedAtSessionEnd ==
    [][/\ (SMStart /\ smSupported = "true") => smAccumulated' = <<>>
       /\ (smIsRecording /\ smIsRecording' /\ smAccumulated' # smAccumulated) =>
              \E results \in ResultLists :
                  /\ SMFinalTranscript(results) # <<>>
                  /\ smAccumulated' = smAccumulated \o SMFinalTranscript(results)
       /\ Len(smDelivered') > Len(smDelivered) => smAccumulated' = <<>>]_vars

\* C16: SpeechRecognitionManager.start() returns false and invokes the
\* onError callback, without changing the listening state, both when speech
\* recognition is unsupported and when it is called while a recognition
\* session is already listening.
C16_StartFailsWithError ==
    (srSupported = "false" \/ (srSupported = "true" /\ srIsListening)) =>
        LET r == SRStart(srSupported, srIsListening, srEngine)
        IN ~r.ret /\ r.err /\ r.engine = srEngine

\* C17: after SpeechRecognitionManager.stopContinuous() no recognition.start()
\* is issued by an end-of-recognition handler or by a pending 100 ms restart
\* timer until startContinuous() is called again.
C17_NoRestartAfterStopContinuous ==
    [][(srShould = "false" /\ vcEvent'.op # "startCall") =>
           srStartCalls' = srStartCalls]_vars

\* C17 witness: after stopContinuous() a restart timer has fired and started
\* nothing, and the recognition session has ended.
C17_Witness ==
    /\ srShould = "false"
    /\ srSkipped
    /\ srEngine = "idle"
    /\ srTimers = 0
    /\ vcRestartTimers = 0

\* C18: a recognition error during listening causes listening to stop: after
\* it the capture component is not listening, and recognition is not started
\* again until the user explicitly starts it.
C18_ErrorStopsListening ==
    [][/\ SROnError => ~srIsListening'
       /\ (srAfterError /\ srAfterError') => srStartCalls' = srStartCalls]_vars

\* C19: startCall() invoked while the transport is not connected, or while
\* speech recognition is unsupported, leaves isOnCall, the conversation log
\* and the speech-capture state unchanged and surfaces a user-visible message.
C19_RefusedStartShowsMessage ==
    [][(/\ vcEvent'.op = "startCall"
        /\ ~vcEvent'.onCall
        /\ (~vcEvent'.connected \/ ~vcEvent'.supported)) =>
           /\ vcIsOnCall' = vcIsOnCall
           /\ uiChat' = uiChat
           /\ uiHistory' = uiHistory
           /\ UNCHANGED srVars
           /\ (uiCallStatus' # uiCallStatus \/ uiNotifications' > uiNotifications)]_vars

\* C20: endCall() invoked while not on a call changes no state, adds no log
\* entry and sets no timer, so calling endCall() twice in a row has the same
\* effect as calling it once.
C20_EndCallIdempotent ==
    [][(vcEvent'.op = "endCall" /\ ~vcEvent'.onCall) =>
           /\ UNCHANGED <<uiVars, srVars, amVars>>
           /\ UNCHANGED <<vcIsOnCall, vcIsConnected, vcWs, vcClosePending,
                          vcReconnectTimer, vcRestartTimers, vcStatusTimers, vcSent>>]_vars

\* C20 witness: endCall() has just run for the second time in a row: the
\* conversation has one "Call ended" entry and one status timer is pending.
C20_Witness ==
    /\ vcEvent.op = "endCall" /\ ~vcEvent.onCall
    /\ vcStatusTimers = 1
    /\ Cardinality({i \in DOMAIN uiHistory : uiHistory[i].content = <<"Call ended">>}) = 1
    /\ uiCallStatus = "Call ended"

\* Before(calls, a, b): a is made before b in the sequence of calls.
Before(calls, a, b) ==
    \E i, j \in DOMAIN calls : i < j /\ calls[i] = a /\ calls[j] = b

\* C21: endCall() on a call stops speech capture, then stops the playing
\* fragment and empties the playback queue, then removes the live
\* transcription; when it returns isOnCall is false, no fragment is playing
\* and the queue is empty.
C21_EndCallStopsCaptureThenPlayback ==
    [][(EndCall /\ vcIsOnCall) =>
           /\ Before(vcEvent'.calls, "stopContinuous", "stopAll")
           /\ Before(vcEvent'.calls, "stopAll", "removeLiveTranscription")
           /\ srShould' = "false"
           /\ ~vcIsOnCall'
           /\ LiveNodes' = {}
           /\ amQueue' = <<>>
           /\ AMPlaying' = {}]_vars

\* The nodes of the chat area that show a logged entry: a message that is
\* not the in-progress assistant entry (the live transcription and the
\* welcome text are not entries of the log).
LoggedNodes(chat) ==
    {i \in DOMAIN chat : chat[i].cls \in {"user", "ai", "system", "error"} /\ ~chat[i].cur}

\* C22: the conversation log is append-only: no operation removes or
\* changes an entry of conversationHistory, or a node of the chat area that
\* shows a logged entry; only the in-progress assistant entry may change.
C22_LogIsAppendOnly ==
    [][/\ IsPrefix(uiHistory, uiHistory')
       /\ \A i \in LoggedNodes(uiChat) :
              \E j \in DOMAIN uiChat' : uiChat'[j] = uiChat[i]]_vars

\* What sendMessage(message) must do on a socket in state ws, given the
\* frames sent before and after it and what it did.
SendContract(ws, message, before, after, ret) ==
    IF ws = "open"
    THEN /\ ret = "true"
         /\ Len(after) = Len(before) + 1
         /\ IsPrefix(before, after)
         /\ after[Len(after)].kind = "text"
         /\ JSONParse(after[Len(after)].data).ok
         /\ JSONParse(after[Len(after)].data).value = message
    ELSE /\ ret = "false"
         /\ after = before

\* C23: sendMessage returns false, sends nothing and does not throw when the
\* socket is absent or not open; on an open socket it sends exactly one
\* JSON text frame and returns true.
C23_SendOnlyWhenOpen ==
    [][\A message \in OutMessages :
          /\ WCSendMessageWith(message) =>
                 SendContract(wcWs, message, wcFrames, wcFrames', wcSendRet')
          /\ WMSendMessageWith(message) =>
                 SendContract(wmWs, message, wmFrames, wmFrames', wmSendRet')]_vars

\* Both transports have refused a message on an absent socket after having
\* sent one on an open socket.
C23_Witness ==
    /\ wcWs = "null" /\ wcSendRet = "false" /\ Len(wcFrames) = 1
    /\ wmWs = "null" /\ wmSendRet = "false" /\ Len(wmFrames) = 1

\* The handler of the last onMessage(type, handler) call made for the type,
\* 0 when no call was made for it.
RECURSIVE LastRegistered(_, _)
LastRegistered(regs, type) ==
    IF regs = <<>> THEN 0
    ELSE IF regs[Len(regs)].type = type THEN regs[Len(regs)].handler
    ELSE LastRegistered(SubSeq(regs, 1, Len(regs) - 1), type)

\* A frame that carries a message of a type onMessage was called for
\* invokes the handler of the last such call, once, and no other handler.
DispatchesToLast(regs, rx) ==
    (JSONParse(rx.data).ok /\ LastRegistered(regs, JSONParse(rx.data).value.type) # 0) =>
        rx.invoked = <<LastRegistered(regs, JSONParse(rx.data).value.type)>>

\* C24: after any sequence of onMessage(type, handler) calls, an inbound
\* message of a type invokes exactly one handler, the one registered last
\* for that type, and no handler registered for another type.
C24_LastRegistrationWins ==
    [][\A data \in InFrames :
          /\ WCSocketMessageWith(data) => DispatchesToLast(wcRegs, wcRx')
          /\ ELSocketMessageWith(data) => DispatchesToLast(elRegs, elRx')]_vars

\* On both transports a second handler was registered for a type, another
\* type has a handler too or the same type had one before, and a message of
\* the type registered twice has reached the second handler.
C24_Witness ==
    /\ wcRegs = <<[type |-> "message", handler |-> 1], [type |-> "message", handler |-> 2]>>
    /\ wcRx.data = JSONStringify([type |-> "message", content |-> <<"x">>])
    /\ wcRx.invoked = <<2>>
    /\ elRegs = <<[type |-> "error", handler |-> 2], [type |-> "message", handler |-> 1]>>
    /\ elRx.data = JSONStringify([type |-> "message", content |-> <<"x">>])
    /\ elRx.invoked = <<1>>

\* The frame of a message of a type nothing handles.
UnknownFrame == JSONStringify([type |-> "frobnicate", content |-> <<"x">>])

\* C25: an inbound message whose type has no handler invokes no handler,
\* adds no conversation or error entry, and leaves the state of the
\* orchestrator, of the view and of the playback unchanged.
C25_UnhandledTypeChangesNothing ==
    [][\A data \in InFrames \cup VCInFrames :
          /\ (/\ WCSocketMessageWith(data)
              /\ JSONParse(data).ok
              /\ JSONParse(data).value.type \notin DOMAIN wcHandlers) =>
                 /\ wcRx'.invoked = <<>>
                 /\ ~wcRx'.threw
                 /\ UNCHANGED <<wcHandlers, callVars, amVars, apVars, smVars>>
          /\ (/\ WMSocketMessageWith(data)
              /\ JSONParse(data).ok
              /\ JSONParse(data).value.type \notin SwitchCases) =>
                 /\ ~wmRx'.threw
                 /\ UNCHANGED <<uiVars, srVars, amVars>>
                 /\ UNCHANGED <<vcIsOnCall, vcIsConnected, vcWs, vcSent, vcStatusTimers,
                                vcRestartTimers>>]_vars

\* The client, which has a handler for another type, and the VoiceCall,
\* which is on a call with a fragment playing, have both received a message
\* of a type nothing handles.
C25_Witness ==
    /\ wcHandlers # <<>>
    /\ wcRx.data = UnknownFrame
    /\ wmRx.data = UnknownFrame
    /\ vcIsOnCall
    /\ amIsPlaying
    /\ Len(uiHistory) = 2

\* C26: a frame that is not JSON is dropped: no handler is invoked and no
\* state changes; the well-formed messages received before and after it are
\* dispatched as they are without it.
C26_MalformedFrameIsDropped ==
    [][\A data \in InFrames \cup VCInFrames :
          /\ (ELSocketMessageWith(data) /\ ~JSONParse(data).ok) =>
                 /\ elRx'.invoked = <<>>
                 /\ UNCHANGED <<elHandlers, elVars, apVars>>
          /\ (ELSocketMessageWith(data) /\ JSONParse(data).ok) =>
                 /\ DispatchesToLast(elRegs, elRx')
                 /\ ~elRx'.threw
          /\ (WMSocketMessageWith(data) /\ ~JSONParse(data).ok) =>
                 /\ ~wmRx'.delivered
                 /\ ~wmRx'.threw
                 /\ UNCHANGED <<uiVars, srVars, amVars>>
                 /\ UNCHANGED <<vcIsOnCall, vcIsConnected, vcWs, vcSent, vcStatusTimers,
                                vcRestartTimers>>
          /\ (WMSocketMessageWith(data) /\ JSONParse(data).ok) =>
                 /\ wmRx'.delivered
                 /\ (JSONParse(data).value.type = "system" =>
                        uiHistory' = Append(uiHistory,
                                            [content |-> JSONParse(data).value.content,
                                             sender |-> "system"]))]_vars

\* Both managers have received a frame that is not JSON, and the message
\* that arrived after it was dispatched: to the handler registered for its
\* type, and to the chat log.
C26_Witness ==
    /\ elBadSeen
    /\ elRx.invoked = <<1>>
    /\ wmBadSeen
    /\ wmRx.data = JSONStringify([type |-> "system", content |-> <<"A">>])
    /\ uiHistory[Len(uiHistory)] = [content |-> <<"A">>, sender |-> "system"]

\* The fragments handed to playAudio directly, not through the queue.
DirectFragments == {a \in DOMAIN amAudio : amAudio[a].via # "queueAudio"}

\* C27: a fragment played through playAudio directly leaves the pending
\* queue as it is, when it starts and when it finishes: no queued fragment is
\* removed or started because of it.
C27_DirectPlayLeavesQueue ==
    [][/\ (VCAudioChunk \/ VCAudioResponse) => amQueue' = amQueue
       /\ \A a \in DirectFragments : AudioEndedOf(a) => amQueue' = amQueue]_vars

\* C28: an object URL created for a fragment is revoked once the fragment
\* will no longer play: the URLs that are not revoked belong to Audio objects
\* that are playing.
C28_UrlsOfFinishedFragmentsRevoked ==
    \A a \in amUrls : a \in AMPlaying

\* The VoiceAgent: the transport's events, the server's messages, the
\* user's clicks on the microphone button, the recognition's events and the
\* clean-up timer of the AudioPlayer.
NextVA ==
    \/ ELInitialConnect
    \/ ELSocketOpens
    \/ ELSocketError
    \/ ELSocketCloses
    \/ ELTimerFires
    \/ VASocketMessage
    \/ VAStartListening
    \/ VAStopListening
    \/ VARecognitionOnStart
    \/ VARecognitionOnResult
    \/ VARecognitionOnError
    \/ VARecognitionOnEnd
    \/ CleanupTimerFires

SpecVA == Init /\ [][NextVA]_vars

\* A step in which the handler of an audio_response or error message runs.
ClearingMessageStep ==
    \E message \in VAInMessages :
        message.type \in VAClearingTypes /\ VASocketMessageWith(message)

\* A step in which the handler of a 'processing' message runs.
ProcessingMessageStep ==
    \E message \in VAInMessages :
        message.type = "processing" /\ VASocketMessageWith(message)

\* C29: a 'processing' message sets isProcessing; while it is set, every
\* step other than the receipt of an audio_response or error message leaves
\* it set and makes no call of recognition.start(), startListening() and the
\* transport's close, error, reconnect and open events included.
C29_ProcessingHoldsUntilResponse ==
    [][/\ ProcessingMessageStep => vaIsProcessing'
       /\ (vaIsProcessing /\ ~ClearingMessageStep) =>
              /\ vaIsProcessing'
              /\ vaSrStarts' = vaSrStarts
              /\ (vaSrEngine' = "starting" => vaSrEngine = "starting")
       /\ (vaIsProcessing /\ VAStartListening) => ~vaEvent'.started]_vars

\* isProcessing is set, the socket that carried the 'processing' message
\* has closed and a reconnect is under way, and startListening() has just
\* been called on an idle recognition without starting it.
C29_Witness ==
    /\ vaIsProcessing
    /\ elWs = "connecting"
    /\ elAttempts >= 1
    /\ ~vaSrIsListening
    /\ vaSrEngine = "idle"
    /\ vaSrStarts = 0
    /\ vaEvent = [op |-> "startListening", started |-> FALSE]

\* C30: whatever the interleaving of queueAudio, playAudio, stopAll and the
\* ended, error and play-rejection callbacks of the Audio objects, those of
\* superseded fragments included, at most one Audio is playing, and
\* isPlaying is true exactly while one is.
C30_AtMostOnePlaying ==
    /\ Cardinality(AMPlaying) <= 1
    /\ amIsPlaying <=> AMPlaying # {}

\* C31: start() called while a recording session is active leaves the
\* session as it is: isRecording stays true and the transcript accumulated
\* so far is kept, so that stop() can still end the session.
C31_StartWhileRecordingKeepsSession ==
    [][(SMStart /\ smIsRecording) =>
           /\ smIsRecording'
           /\ smAccumulated' = smAccumulated]_vars

\* C32: in the OpenAI + Pipecat front end at most one WebSocket with handlers
\* attached is connecting or open, and at most one reconnect timer is
\* pending, in every reachable state.
C32_OneSocketOneTimer ==
    wcVariant = "pipecat" => (WCLiveSockets <= 1 /\ WCTimers <= 1)

\* C33: each end of a recognition pass leads to at most one restart attempt:
\* the restart timers set by one recognition.onend make at most one call of
\* recognition.start(), however many calls were started and ended before.
C33_OneRestartPerEnd ==
    srRestarts <= 1

\* endCall() has returned and startCall() has not been called since: the
\* call is off and the log holds the "Call ended" entry of endCall().
CallEnded ==
    /\ ~vcIsOnCall
    /\ \E i \in DOMAIN uiHistory :
           uiHistory[i] = [content |-> <<"Call ended">>, sender |-> "system"]

\* C34: after endCall() has returned no audio fragment starts playing until
\* the next startCall(), also when audio_chunk or audio_response messages of
\* the ended call arrive.
C34_NoAudioAfterEndCall ==
    [][(CallEnded /\ ~vcIsOnCall') => AMPlaying' \subseteq AMPlaying]_vars

SpecVChCall == Init /\ [][NextVChCall]_vars

\* C35: in both streaming front ends isOnCall implies isConnected in every
\* reachable state.
C35_OnCallImpliesConnected ==
    /\ vcIsOnCall => vcIsConnected
    /\ vchIsOnCall => vchIsConnected

\* ===================================================================
\* Reconnect counters of both clients
\* ===================================================================
\* The WebSocketClient next to a streaming WebSocketManager that nobody
\* disconnects.
NextReconnect ==
    \/ WCInitialConnect
    \/ WCVisibilityConnect
    \/ WCTimerFires
    \/ WCSocketOpens
    \/ WCSocketCloses
    \/ WCDisconnect
    \/ WMInitialConnect
    \/ WMTimerFires
    \/ WMSocketOpens
    \/ WMSocketCloses

SpecReconnect == Init /\ [][NextReconnect]_vars

\* C36: the reconnect attempt counter of each client stays within 0..5, every
\* onopen sets it to 0, and a closure handled while it is 0 is retried as the
\* first attempt: the counter becomes 1 and one timer is set with the
\* first-attempt delay (a closure with code 1000 of the manager's socket sets
\* none and leaves the counter alone).
C36_CounterResetOnOpen ==
    /\ [](/\ wcReconnectAttempts \in 0..MaxReconnectAttempts
          /\ wmReconnectAttempts \in 0..ManagerMaxReconnectAttempts)
    /\ [][/\ WCSocketOpens => wcReconnectAttempts' = 0
          /\ WMSocketOpens => wmReconnectAttempts' = 0
          /\ (WCSocketCloses /\ wcReconnectAttempts = 0) =>
                 /\ wcReconnectAttempts' = 1
                 /\ wcDelays' = Append(wcDelays, ClientBaseDelay)
                 /\ WCTimers' = WCTimers + 1
                 /\ wcState' = "reconnecting"
          /\ (WMSocketCloses /\ wmReconnectAttempts = 0) =>
                 \/ /\ wmReconnectAttempts' = 1
                    /\ wmDelays' = Append(wmDelays, ManagerReconnectDelay)
                    /\ wmTimers' = wmTimers + 1
                 \/ /\ wmWs # "connecting"
                    /\ UNCHANGED <<wmReconnectAttempts, wmDelays, wmTimers>>]_vars

\* Each client's second socket opened and then closed abnormally: the closure
\* after the successful reconnection is counted as attempt 1.
C36_Witness ==
    /\ wcCreated = 2 /\ wcWs = "closed" /\ wcAbandoned.open = 0
    /\ wcReconnectAttempts = 1 /\ wcDelays = <<ClientBaseDelay>>
    /\ wmCreated = 2 /\ wmWs = "closed"
    /\ wmReconnectAttempts = 1 /\ wmDelays = <<ManagerReconnectDelay>>

\* The entries a step adds to the voice-chat conversation.
VChAddedEntries == SubSeq(vchHistory', Len(vchHistory) + 1, Len(vchHistory'))

\* C37: when the voice-chat front end handles a final transcript that is not
\* blank while it holds itself connected, it adds the user entry exactly when
\* the user_speech message was given to the socket; when it was not, it adds
\* an error entry and no user entry.
C37_UserEntryIffTransmitted ==
    [][(/\ VChOnFinalResult
        /\ vchEvent'.op = "sendTranscription"
        /\ vchEvent'.text # <<>>
        /\ vchIsConnected) =>
            LET user == [content |-> Labelled("You: ", vchEvent'.text), sender |-> "user"]
                hasUser == \E i \in DOMAIN VChAddedEntries : VChAddedEntries[i] = user
                hasError == \E i \in DOMAIN VChAddedEntries :
                                VChAddedEntries[i].sender = "error"
            IN /\ hasUser <=> vchEvent'.transmitted
               /\ ~vchEvent'.transmitted => (hasError /\ ~hasUser)]_vars

\* The nodes of a chat area that are finalized assistant entries with the
\* given content.
FinalizedEntries(chat, text) ==
    {i \in DOMAIN chat : /\ chat[i].cls = "ai"
                         /\ ~chat[i].cur
                         /\ chat[i].text = Labelled("AI: ", text)}

\* C38: every ai_response_complete message adds exactly one finalized
\* assistant entry with its content to the chat area, whether or not an
\* ai_response_start came before it.
C38_CompleteLeavesOneEntry ==
    [][\A text \in AiTexts :
           VCMessageWith("ai_response_complete", text) =>
               Cardinality(FinalizedEntries(uiChat', text))
                   = Cardinality(FinalizedEntries(uiChat, text)) + 1]_vars
====
